---------------------------- MODULE Spec2Model ----------------------------
(***************************************************************************)
(* A model of wolfram-expr: the symbol grammar and the validated symbol    *)
(* types, the WXF encoder, and the reference-counted expression tree with  *)
(* copy-on-write mutation.                                                 *)
(*                                                                         *)
(* Text is a sequence of Unicode scalar values.   Three specifications      *)
(* share the variables; each one keeps the variables of the others idle:   *)
(*   SpecSymbol  the validators of src/src/symbol.rs on every short text   *)
(*   SpecWxf     the encoder of src/src/wxf/mod.rs on every small tree     *)
(*   Spec        handles, allocations and owner counts of Expr             *)
(***************************************************************************)
EXTENDS Integers, Sequences, FiniteSets, TLC

VARIABLES
    input,      \* SpecSymbol: the text handed to a validator
    outcome,    \* SpecSymbol: the validator that ran and what it returned
    expr,       \* SpecWxf: the expression (a tree value) handed to the encoder
    wire,       \* SpecWxf: the bytes the encoder returned, <<>> before the call
    heap,       \* Spec: allocation id -> cell (ExprKind and strong count)
    handle,     \* Spec: handle name -> allocation id, or NoAlloc
    borrow,     \* Spec: the allocation whose kind is mutably borrowed
    last        \* Spec: the last operation and what it returned

vars == <<input, outcome, expr, wire, heap, handle, borrow, last>>

symbolVars == <<input, outcome>>
wxfVars == <<expr, wire>>
heapVars == <<heap, handle, borrow, last>>

\* ------------------------------------------------------------------
\* Option and panic results
\* ------------------------------------------------------------------

None == [tag |-> "None", value |-> <<>>]
Some(v) == [tag |-> "Some", value |-> v]
Panic == [tag |-> "Panic", value |-> <<>>]
Pending == [op |-> "pending", result |-> None]

\* ------------------------------------------------------------------
\* Characters
\* ------------------------------------------------------------------

\* A character is its Unicode scalar value; the grammar's two punctuation
\* characters are the grave accent and the dollar sign.
Grave == 96
Dollar == 36

AsciiLetters == (65..90) \cup (97..122)
AsciiDigits == 48..57

\* nom's AsChar::is_alpha / is_dec_digit for char, as used by alpha1 / digit1
is_alpha(c) == c \in AsciiLetters
is_dec_digit(c) == c \in AsciiDigits

\* ------------------------------------------------------------------
\* The grammar: src/src/symbol/parse.rs.  A parser takes the text s and
\* the number i of characters already consumed and returns the number
\* consumed after it, or Err.
\* ------------------------------------------------------------------

Err == -1

\* tag(t): one literal character
tag(t, s, i) == IF i < Len(s) /\ s[i + 1] = t THEN i + 1 ELSE Err

RECURSIVE RunEnd(_, _, _)
\* the end of the longest run of characters of class `digits` (TRUE: digits,
\* FALSE: letters) that starts after position i
RunEnd(digits, s, i) ==
    IF i < Len(s) /\ (IF digits THEN is_dec_digit(s[i + 1]) ELSE is_alpha(s[i + 1]))
    THEN RunEnd(digits, s, i + 1)
    ELSE i

\* alpha1 / digit1: one or more letters / digits
alpha1(s, i) == LET j == RunEnd(FALSE, s, i) IN IF j > i THEN j ELSE Err
digit1(s, i) == LET j == RunEnd(TRUE, s, i) IN IF j > i THEN j ELSE Err

\* alt((alpha1, tag(DOLLAR)))
NameHeadAlt(s, i) ==
    IF alpha1(s, i) # Err THEN alpha1(s, i) ELSE tag(Dollar, s, i)

\* alt((digit1, alpha1, tag(DOLLAR)))
NameTailAlt(s, i) ==
    IF digit1(s, i) # Err THEN digit1(s, i)
    ELSE IF alpha1(s, i) # Err THEN alpha1(s, i)
    ELSE tag(Dollar, s, i)

RECURSIVE NameHeadMany(_, _)
\* the repetition of many1(alt((alpha1, tag(DOLLAR)))) after its first item
NameHeadMany(s, i) ==
    IF NameHeadAlt(s, i) = Err THEN i ELSE NameHeadMany(s, NameHeadAlt(s, i))

RECURSIVE NameTailMany(_, _)
\* many0(alt((digit1, alpha1, tag(DOLLAR))))
NameTailMany(s, i) ==
    IF NameTailAlt(s, i) = Err THEN i ELSE NameTailMany(s, NameTailAlt(s, i))

\* a mutant of symbol_name: the first item may also be a run of digits
symbol_name_digit_first(s, i) ==
    IF NameTailAlt(s, i) = Err THEN Err ELSE NameTailMany(s, NameTailAlt(s, i))

symbol_name(s, i) ==
    IF NameHeadAlt(s, i) = Err
    THEN Err
    ELSE NameTailMany(s, NameHeadMany(s, NameHeadAlt(s, i)))

\* pair(symbol_name, tag(GRAVE))
NameGravePair(s, i) ==
    IF symbol_name(s, i) = Err THEN Err ELSE tag(Grave, s, symbol_name(s, i))

RECURSIVE PairsMany(_, _)
PairsMany(s, i) ==
    IF NameGravePair(s, i) = Err THEN i ELSE PairsMany(s, NameGravePair(s, i))

\* many1(complete(pair(symbol_name, tag(GRAVE))))
absolute_context_path(s, i) ==
    IF NameGravePair(s, i) = Err THEN Err ELSE PairsMany(s, NameGravePair(s, i))

\* pair(tag(GRAVE), many1(complete(pair(symbol_name, tag(GRAVE)))))
relative_context_path(s, i) ==
    IF tag(Grave, s, i) = Err THEN Err ELSE absolute_context_path(s, tag(Grave, s, i))

\* pair(absolute_context_path, symbol_name)
absolute_symbol(s, i) ==
    IF absolute_context_path(s, i) = Err
    THEN Err
    ELSE symbol_name(s, absolute_context_path(s, i))

\* pair(relative_context_path, symbol_name)
relative_symbol(s, i) ==
    IF relative_context_path(s, i) = Err
    THEN Err
    ELSE symbol_name(s, relative_context_path(s, i))

\* alt((absolute_symbol, relative_symbol, symbol_name))
symbol(s, i) ==
    IF absolute_symbol(s, i) # Err THEN absolute_symbol(s, i)
    ELSE IF relative_symbol(s, i) # Err THEN relative_symbol(s, i)
    ELSE symbol_name(s, i)

\* ------------------------------------------------------------------
\* The validators.  Each parses from the start and rejects a text with
\* characters left over; the value of the result is the validated text.
\* ------------------------------------------------------------------

Validate(end, s) ==
    IF end = Err THEN None
    ELSE IF Len(s) - end = 0 THEN Some(SubSeq(s, 1, end))
    ELSE None

\* a mutant of SymbolRef_try_new: the text is parsed with symbol, which also
\* takes a relative symbol and a bare name
SymbolRef_try_new_any_symbol(s) == Validate(symbol(s, 0), s)

SymbolRef_try_new(s) == Validate(absolute_symbol(s, 0), s)
SymbolNameRef_try_new(s) == Validate(symbol_name(s, 0), s)
ContextRef_try_new(s) == Validate(absolute_context_path(s, 0), s)
RelativeContext_try_new(s) == Validate(relative_context_path(s, 0), s)

Symbol_try_new(s) == SymbolRef_try_new(s)
SymbolName_try_new(s) == SymbolNameRef_try_new(s)
Context_try_new(s) == ContextRef_try_new(s)

\* a mutant of Symbol_new: the text is wrapped without being validated
Symbol_new_unchecked(s) == Some(s)

Symbol_new(s) ==
    IF Symbol_try_new(s).tag = "Some" THEN Symbol_try_new(s) ELSE Panic

Context_new(s) ==
    IF Context_try_new(s).tag = "Some" THEN Context_try_new(s) ELSE Panic

\* ------------------------------------------------------------------
\* SpecSymbol: every validator on every text of at most MaxTextLen
\* characters of Alphabet.
\* ------------------------------------------------------------------

MaxTextLen == 5

\* the letter a, the digit 5, the dollar sign, the grave accent, the underscore
Alphabet == {97, 53, Dollar, Grave, 95}

RECURSIVE TextsOfLen(_)
TextsOfLen(n) ==
    IF n = 0 THEN {<<>>}
    ELSE {Append(t, c) : t \in TextsOfLen(n - 1), c \in Alphabet}

Texts == UNION {TextsOfLen(n) : n \in 0..MaxTextLen}

IdleSymbol == input = <<>> /\ outcome = Pending
IdleWxf == expr = <<>> /\ wire = <<>>
IdleHeap == heap = <<>> /\ handle = <<>> /\ borrow = 0 /\ last = Pending

InitSymbol ==
    /\ input \in Texts
    /\ outcome = Pending
    /\ IdleWxf
    /\ IdleHeap

SymbolTryNew ==
    /\ outcome = Pending
    /\ outcome' = [op |-> "Symbol::try_new", result |-> Symbol_try_new(input)]
    /\ UNCHANGED <<input, wxfVars, heapVars>>

SymbolNameTryNew ==
    /\ outcome = Pending
    /\ outcome' = [op |-> "SymbolName::try_new", result |-> SymbolName_try_new(input)]
    /\ UNCHANGED <<input, wxfVars, heapVars>>

ContextTryNew ==
    /\ outcome = Pending
    /\ outcome' = [op |-> "Context::try_new", result |-> Context_try_new(input)]
    /\ UNCHANGED <<input, wxfVars, heapVars>>

RelativeContextTryNew ==
    /\ outcome = Pending
    /\ outcome' = [op |-> "RelativeContext::try_new", result |-> RelativeContext_try_new(input)]
    /\ UNCHANGED <<input, wxfVars, heapVars>>

SymbolNew ==
    /\ outcome = Pending
    /\ outcome' = [op |-> "Symbol::new", result |-> Symbol_new(input)]
    /\ UNCHANGED <<input, wxfVars, heapVars>>

ContextNew ==
    /\ outcome = Pending
    /\ outcome' = [op |-> "Context::new", result |-> Context_new(input)]
    /\ UNCHANGED <<input, wxfVars, heapVars>>

NextSymbol ==
    \/ SymbolTryNew
    \/ SymbolNameTryNew
    \/ ContextTryNew
    \/ RelativeContextTryNew
    \/ SymbolNew
    \/ ContextNew

SpecSymbol == InitSymbol /\ [][NextSymbol]_vars

\* ------------------------------------------------------------------
\* The grammar as the specification words it: a text is split at every
\* "`" into segments, and each kind of text is a shape of that split.
\* ------------------------------------------------------------------

RECURSIVE Segments(_)
Segments(s) ==
    IF \A i \in 1..Len(s) : s[i] # Grave
    THEN <<s>>
    ELSE LET k == CHOOSE i \in 1..Len(s) :
                     s[i] = Grave /\ \A j \in 1..(i - 1) : s[j] # Grave
         IN <<SubSeq(s, 1, k - 1)>> \o Segments(SubSeq(s, k + 1, Len(s)))

IsNameSegment(t) ==
    /\ Len(t) >= 1
    /\ is_alpha(t[1]) \/ t[1] = Dollar
    /\ \A i \in 2..Len(t) : is_alpha(t[i]) \/ is_dec_digit(t[i]) \/ t[i] = Dollar

\* one or more (name segment, "`") pairs followed by one name segment
IsSymbolText(s) ==
    LET g == Segments(s)
    IN Len(g) >= 2 /\ \A i \in 1..Len(g) : IsNameSegment(g[i])

\* one or more (name segment, "`") pairs
IsContextText(s) ==
    LET g == Segments(s)
    IN /\ Len(g) >= 2
       /\ g[Len(g)] = <<>>
       /\ \A i \in 1..(Len(g) - 1) : IsNameSegment(g[i])

\* "`" followed by one or more (name segment, "`") pairs
IsRelativeContextText(s) ==
    LET g == Segments(s)
    IN /\ Len(g) >= 3
       /\ g[1] = <<>>
       /\ g[Len(g)] = <<>>
       /\ \A i \in 2..(Len(g) - 1) : IsNameSegment(g[i])

Accepts(op, ok) ==
    outcome.op = op =>
        /\ outcome.result.tag = (IF ok THEN "Some" ELSE "None")
        /\ ok => outcome.result.value = input

\* C1: each try_new succeeds exactly on the texts of its grammar rule (the
\* whole text, nothing left over), and returns None on every other text.
C1_GrammarConformance ==
    /\ Accepts("Symbol::try_new", IsSymbolText(input))
    /\ Accepts("SymbolName::try_new", IsNameSegment(input))
    /\ Accepts("Context::try_new", IsContextText(input))
    /\ Accepts("RelativeContext::try_new", IsRelativeContextText(input))

\* a symbol with two context components has been accepted
C1_Witness ==
    /\ outcome.op = "Symbol::try_new"
    /\ input = <<97, Grave, Dollar, Grave, 97>>
    /\ outcome.result.tag = "Some"

\* C10: Symbol::new and Context::new panic exactly when the matching try_new
\* is None, otherwise return what try_new returns; a text outside the grammar
\* never comes back from new as a value.
C10_NewAgreesWithTryNew ==
    /\ outcome.op = "Symbol::new" =>
          /\ (outcome.result = Panic) <=> (Symbol_try_new(input) = None)
          /\ outcome.result # Panic => outcome.result = Symbol_try_new(input)
          /\ outcome.result # Panic => IsSymbolText(input)
          /\ IsSymbolText(input) => outcome.result = Some(input)
    /\ outcome.op = "Context::new" =>
          /\ (outcome.result = Panic) <=> (Context_try_new(input) = None)
          /\ outcome.result # Panic => outcome.result = Context_try_new(input)
          /\ outcome.result # Panic => IsContextText(input)
          /\ IsContextText(input) => outcome.result = Some(input)

\* Symbol::new has panicked on a text that is a context, not a symbol
C10_Witness ==
    /\ outcome.op = "Symbol::new"
    /\ input = <<97, Grave, 97, Grave>>
    /\ outcome.result = Panic

\* "`" followed by name segments separated by "`", the last one not
\* followed by "`"
IsRelativeSymbolText(s) ==
    LET g == Segments(s)
    IN /\ Len(g) >= 2
       /\ g[1] = <<>>
       /\ \A i \in 2..Len(g) : IsNameSegment(g[i])

TryNewOps ==
    {"Symbol::try_new", "SymbolName::try_new", "Context::try_new",
     "RelativeContext::try_new"}

\* C11: on a relative symbol ("`" and then name segments separated by "`",
\* ending in a name segment) each of the four try_new returns None.
C11_RelativeSymbolRejected ==
    (IsRelativeSymbolText(input) /\ outcome.op \in TryNewOps)
        => outcome.result = None

\* Symbol::try_new has returned None on the relative symbol `a`a
C11_Witness ==
    /\ input = <<Grave, 97, Grave, 97>>
    /\ outcome.op = "Symbol::try_new"
    /\ outcome.result = None

\* ------------------------------------------------------------------
\* Expression values.  An ExprKind is one of
\*   [kind |-> "Integer", int |-> n]          n an i64, see I64
\*   [kind |-> "Real", real |-> x]            x an F64
\*   [kind |-> "String", text |-> s]
\*   [kind |-> "Symbol", text |-> s]
\*   [kind |-> "Normal", head |-> e, contents |-> <<e1, ..., en>>]
\* In a tree value the children are tree values; in a heap cell they are
\* allocation ids.
\* ------------------------------------------------------------------

Integer(n) == [kind |-> "Integer", int |-> n]
Real(x) == [kind |-> "Real", real |-> x]
String(s) == [kind |-> "String", text |-> s]
Symbol(s) == [kind |-> "Symbol", text |-> s]
Normal(h, c) == [kind |-> "Normal", head |-> h, contents |-> c]

\* An f64 by its IEEE-754 fields: the sign bit, the 11 exponent bits, and
\* the 52 fraction bits as their top 20, middle 16 and low 16 bits.
F64(sign, exp, m1, m2, m3) ==
    [sign |-> sign, exp |-> exp, m1 |-> m1, m2 |-> m2, m3 |-> m3]

PosZero == F64(0, 0, 0, 0, 0)
NegZero == F64(1, 0, 0, 0, 0)
OnePointFive == F64(0, 1023, 524288, 0, 0)
PosInfinity == F64(0, 2047, 0, 0, 0)
NegInfinity == F64(1, 2047, 0, 0, 0)
QuietNaN == F64(0, 2047, 524288, 0, 0)

is_nan(x) == x.exp = 2047 /\ (x.m1 # 0 \/ x.m2 # 0 \/ x.m3 # 0)
is_infinite(x) == x.exp = 2047 /\ x.m1 = 0 /\ x.m2 = 0 /\ x.m3 = 0
IsZero(x) == x.exp = 0 /\ x.m1 = 0 /\ x.m2 = 0 /\ x.m3 = 0

\* f64's == : a NaN equals nothing, the two zeros are equal
f64_eq(x, y) ==
    /\ ~is_nan(x)
    /\ ~is_nan(y)
    /\ x = y \/ (IsZero(x) /\ IsZero(y))

\* ------------------------------------------------------------------
\* The WXF encoder: src/src/wxf/mod.rs
\* ------------------------------------------------------------------

RECURSIVE encode_var_vec(_)
\* integer_encoding's VarInt for usize: 7 bits a byte, low bits first, the
\* top bit set on every byte but the last
encode_var_vec(n) ==
    IF n < 128 THEN <<n>>
    ELSE <<(n % 128) + 128>> \o encode_var_vec(n \div 128)

RECURSIVE LeBytes(_, _)
\* the k low bytes of n in two's complement, low byte first
LeBytes(n, k) ==
    IF k = 0 THEN <<>> ELSE <<n % 256>> \o LeBytes(n \div 256, k - 1)

\* An i64 by its four 16-bit limbs, low limb first: the value is
\*   n[1] + n[2] * 2^16 + n[3] * 2^32 + n[4] * 2^48
\* with n[1], n[2], n[3] in 0..65535 and the top limb signed, in
\* -32768..32767.
I64(n) ==
    <<n % 65536,
      (n \div 65536) % 65536,
      IF n < 0 THEN 65535 ELSE 0,
      IF n < 0 THEN -1 ELSE 0>>

\* i64::MIN and i64::MAX
I64_MIN == <<0, 0, 0, -32768>>
I64_MAX == <<65535, 65535, 65535, 32767>>

\* a mutant of i64_to_le_bytes: i64::to_be_bytes, the high byte first
i64_to_be_bytes(n) ==
    LET le == ((LeBytes(n[1], 2) \o LeBytes(n[2], 2)) \o LeBytes(n[3], 2))
                  \o LeBytes(n[4], 2)
    IN [i \in 1..8 |-> le[9 - i]]

\* i64::to_le_bytes
i64_to_le_bytes(n) ==
    ((LeBytes(n[1], 2) \o LeBytes(n[2], 2)) \o LeBytes(n[3], 2))
        \o LeBytes(n[4], 2)

\* f64::to_le_bytes
f64_to_le_bytes(x) ==
    <<x.m3 % 256, x.m3 \div 256,
      x.m2 % 256, x.m2 \div 256,
      x.m1 % 256, (x.m1 \div 256) % 256,
      (x.exp % 16) * 16 + (x.m1 \div 65536),
      x.sign * 128 + (x.exp \div 16)>>

\* the UTF-8 bytes of one character
Utf8Char(c) ==
    IF c < 128 THEN <<c>>
    ELSE IF c < 2048 THEN <<192 + (c \div 64), 128 + (c % 64)>>
    ELSE IF c < 65536
         THEN <<224 + (c \div 4096), 128 + ((c \div 64) % 64), 128 + (c % 64)>>
    ELSE <<240 + (c \div 262144), 128 + ((c \div 4096) % 64),
           128 + ((c \div 64) % 64), 128 + (c % 64)>>

RECURSIVE as_bytes(_)
\* str::as_bytes: the UTF-8 bytes of a text
as_bytes(s) ==
    IF s = <<>> THEN <<>>
    ELSE IF Len(s) = 1 THEN Utf8Char(s[1])
    ELSE LET mid == Len(s) \div 2
         IN as_bytes(SubSeq(s, 1, mid)) \o as_bytes(SubSeq(s, mid + 1, Len(s)))

\* the tag bytes and the header
TagInteger == 76
TagReal == 114
TagString == 83
TagSymbol == 115
TagNormal == 102
HeaderWxf == <<56, 58>>

Symbol_write_internal(s, out) ==
    LET bytes == as_bytes(s)
        len == encode_var_vec(Len(bytes))
    IN (Append(out, TagSymbol) \o len) \o bytes

RECURSIVE Expr_write_internal(_, _)
RECURSIVE WriteEach(_, _)
\* the loop of Normal::write_internal over the contents
WriteEach(contents, out) ==
    IF contents = <<>> THEN out
    ELSE WriteEach(Tail(contents), Expr_write_internal(Head(contents), out))

\* a mutant of Normal_write_internal: the arguments are written before the head
Normal_write_internal_head_last(fx, out) ==
    Expr_write_internal(fx.head,
        WriteEach(fx.contents,
            Append(out, TagNormal) \o encode_var_vec(Len(fx.contents))))

Normal_write_internal(fx, out) ==
    WriteEach(fx.contents,
        Expr_write_internal(fx.head,
            Append(out, TagNormal) \o encode_var_vec(Len(fx.contents))))

\* a mutant of StringAtom_write: a string is written with the symbol's tag
StringAtom_write_symbol_tag(s, out) ==
    (Append(out, TagSymbol) \o encode_var_vec(Len(as_bytes(s)))) \o as_bytes(s)

\* a mutant of StringAtom_write: the length written is the character count
StringAtom_write_char_count(s, out) ==
    (Append(out, TagString) \o encode_var_vec(Len(s))) \o as_bytes(s)

\* the String arm of Expr::write_internal
StringAtom_write(s, out) ==
    LET len == encode_var_vec(Len(as_bytes(s)))
    IN (Append(out, TagString) \o len) \o as_bytes(s)

Expr_write_internal(e, out) ==
    CASE e.kind = "Integer" -> Append(out, TagInteger) \o i64_to_le_bytes(e.int)
      [] e.kind = "Real" -> Append(out, TagReal) \o f64_to_le_bytes(e.real)
      [] e.kind = "String" -> StringAtom_write(e.text, out)
      [] e.kind = "Symbol" -> Symbol_write_internal(e.text, out)
      [] e.kind = "Normal" -> Normal_write_internal(e, out)

as_wxf(e) == Expr_write_internal(e, HeaderWxf)

\* ------------------------------------------------------------------
\* Equality of expression values: the derived PartialEq of ExprKind and
\* Normal, with f64's == on reals.
\* ------------------------------------------------------------------

RECURSIVE Expr_eq(_, _)

\* a mutant of Normal_eq: the contents are compared as sets, not in order
Normal_eq_unordered(a, b) ==
    /\ Expr_eq(a.head, b.head)
    /\ \A i \in 1..Len(a.contents) :
           \E j \in 1..Len(b.contents) : Expr_eq(a.contents[i], b.contents[j])
    /\ \A j \in 1..Len(b.contents) :
           \E i \in 1..Len(a.contents) : Expr_eq(a.contents[i], b.contents[j])

Normal_eq(a, b) ==
    /\ Expr_eq(a.head, b.head)
    /\ Len(a.contents) = Len(b.contents)
    /\ \A i \in 1..Len(a.contents) : Expr_eq(a.contents[i], b.contents[i])

Expr_eq(a, b) ==
    /\ a.kind = b.kind
    /\ CASE a.kind = "Integer" -> a.int = b.int
         [] a.kind = "Real" -> f64_eq(a.real, b.real)
         [] a.kind = "String" -> a.text = b.text
         [] a.kind = "Symbol" -> a.text = b.text
         [] a.kind = "Normal" -> Normal_eq(a, b)

\* ------------------------------------------------------------------
\* SpecWxf: the encoder on every expression of at most MaxNodes nodes
\* whose atoms are the sample atoms.
\* ------------------------------------------------------------------

MaxNodes == 4

SampleAtoms ==
    { Integer(I64(-2)),
      Real(PosZero),
      Real(NegZero),
      String(<<97, Grave, 98>>),
      Symbol(<<97, Grave, 98>>) }

RECURSIVE ExprsOfSize(_)
RECURSIVE SeqsOfSize(_)
\* the sequences of expressions whose node counts add up to n
SeqsOfSize(n) ==
    IF n = 0 THEN {<<>>}
    ELSE UNION { {<<e>> \o r : e \in ExprsOfSize(k), r \in SeqsOfSize(n - k)}
                 : k \in 1..n }

\* the expressions of exactly n nodes
ExprsOfSize(n) ==
    IF n = 1 THEN SampleAtoms
    ELSE UNION { {Normal(h, c) : h \in ExprsOfSize(k), c \in SeqsOfSize(n - 1 - k)}
                 : k \in 1..(n - 1) }

ExprUniverse == UNION {ExprsOfSize(n) : n \in 1..MaxNodes}

\* the encoding of every expression of the universe
WxfTable == [e \in ExprUniverse |-> as_wxf(e)]

\* the node encoding: the bytes after the header
NodeBytes(e) == SubSeq(WxfTable[e], Len(HeaderWxf) + 1, Len(WxfTable[e]))

InitWxf ==
    /\ expr \in ExprUniverse
    /\ wire = <<>>
    /\ IdleSymbol
    /\ IdleHeap

AsWxf ==
    /\ wire = <<>>
    /\ wire' = as_wxf(expr)
    /\ UNCHANGED <<expr, symbolVars, heapVars>>

NextWxf == AsWxf

SpecWxf == InitWxf /\ [][NextWxf]_vars

RECURSIVE Concat(_)
Concat(ss) == IF ss = <<>> THEN <<>> ELSE Head(ss) \o Concat(Tail(ss))

\* C2: a Normal node is the byte f, the varint of its argument count, the
\* whole encoding of its head, then the encodings of its arguments in order.
C2_NormalLayout ==
    (wire # <<>> /\ expr.kind = "Normal") =>
        wire = (((HeaderWxf \o <<TagNormal>>)
                    \o encode_var_vec(Len(expr.contents)))
                    \o NodeBytes(expr.head))
                    \o Concat([i \in 1..Len(expr.contents) |-> NodeBytes(expr.contents[i])])

\* a Normal with a curried head and an argument has been encoded: the head's
\* own f node comes first
C2_Witness ==
    /\ expr = Normal(Normal(Symbol(<<97, Grave, 98>>), <<>>), <<Integer(I64(-2))>>)
    /\ wire = <<56, 58, 102, 1, 102, 0, 115, 3, 97, 96, 98,
                76, 254, 255, 255, 255, 255, 255, 255, 255>>

RECURSIVE SameRealBits(_, _)
\* wherever a holds a real, b holds the real of the same bits at that place
SameRealBits(a, b) ==
    IF a.kind # b.kind THEN TRUE
    ELSE IF a.kind = "Real" THEN a.real = b.real
    ELSE IF a.kind = "Normal"
         THEN /\ SameRealBits(a.head, b.head)
              /\ \A i \in 1..Len(a.contents) :
                     i <= Len(b.contents) =>
                         SameRealBits(a.contents[i], b.contents[i])
    ELSE TRUE

\* C4: no expression that is not equal to the encoded one has its bytes
\* (an expression with the same bytes is equal to it).
C4_Injective ==
    wire # <<>> =>
        \A b \in ExprUniverse : WxfTable[b] = wire => Expr_eq(expr, b)

\* two trees with the same atoms in another grouping have been told apart
C4_Witness ==
    /\ wire # <<>>
    /\ expr = Normal(Normal(Integer(I64(-2)), <<>>), <<Integer(I64(-2))>>)
    /\ WxfTable[Normal(Integer(I64(-2)), <<Normal(Integer(I64(-2)), <<>>)>>)] # wire
    /\ WxfTable[Normal(Integer(I64(-2)), <<Integer(I64(-2))>>)] # wire

\* ------------------------------------------------------------------
\* Expr::tag, Expr::symbol_head and Expr::head on expression values;
\* the slice lookup of Expr::normal_part: src/src/lib.rs
\* ------------------------------------------------------------------

\* "System`Integer", "System`Real", "System`Symbol", "System`String"
SystemInteger ==
    <<83, 121, 115, 116, 101, 109, Grave, 73, 110, 116, 101, 103, 101, 114>>
SystemReal == <<83, 121, 115, 116, 101, 109, Grave, 82, 101, 97, 108>>
SystemSymbol ==
    <<83, 121, 115, 116, 101, 109, Grave, 83, 121, 109, 98, 111, 108>>
SystemString ==
    <<83, 121, 115, 116, 101, 109, Grave, 83, 116, 114, 105, 110, 103>>

\* Symbol::unchecked_new: the text is wrapped as it is
Symbol_unchecked_new(s) == s

\* Option::unwrap
unwrap(o) == IF o.tag = "Some" THEN o.value ELSE Panic

\* Expr::symbol
Expr_symbol(s) == Symbol(s)

RECURSIVE Expr_tag(_)

\* a mutant of Expr_tag: only the direct head of a Normal is looked at
Expr_tag_shallow(e) ==
    CASE e.kind \in {"Integer", "Real", "String"} -> None
      [] e.kind = "Normal" ->
            IF e.head.kind = "Symbol" THEN Some(e.head.text) ELSE None
      [] e.kind = "Symbol" -> Some(e.text)

\* Expr::tag
Expr_tag(e) ==
    CASE e.kind \in {"Integer", "Real", "String"} -> None
      [] e.kind = "Normal" -> Expr_tag(e.head)
      [] e.kind = "Symbol" -> Some(e.text)

\* a mutant of Expr_symbol_head: the head of a Normal is looked through, as
\* tag() does
Expr_symbol_head_nested(e) ==
    CASE e.kind = "Integer" -> Some(Symbol_unchecked_new(SystemInteger))
      [] e.kind = "Real" -> Some(Symbol_unchecked_new(SystemReal))
      [] e.kind = "Symbol" -> Some(Symbol_unchecked_new(SystemSymbol))
      [] e.kind = "String" -> Some(Symbol_unchecked_new(SystemString))
      [] e.kind = "Normal" -> Expr_tag(e.head)

\* Expr::symbol_head
Expr_symbol_head(e) ==
    CASE e.kind = "Integer" -> Some(Symbol_unchecked_new(SystemInteger))
      [] e.kind = "Real" -> Some(Symbol_unchecked_new(SystemReal))
      [] e.kind = "Symbol" -> Some(Symbol_unchecked_new(SystemSymbol))
      [] e.kind = "String" -> Some(Symbol_unchecked_new(SystemString))
      [] e.kind = "Normal" ->
            IF e.head.kind = "Symbol" THEN Some(e.head.text) ELSE None

\* a mutant of Expr_head: the head of a symbol is the symbol itself
Expr_head_symbol_is_own_head(e) ==
    CASE e.kind = "Symbol" -> e
      [] e.kind = "Normal" -> e.head
      [] OTHER ->
            LET s == unwrap(Expr_symbol_head(e))
            IN IF s = Panic THEN Panic ELSE Expr_symbol(s)

\* Expr::head: the expression returned, or Panic when unwrap() meets None
Expr_head(e) ==
    CASE e.kind = "Normal" -> e.head
      [] OTHER ->
            LET s == unwrap(Expr_symbol_head(e))
            IN IF s = Panic THEN Panic ELSE Expr_symbol(s)

\* <[T]>::get: the element at a zero-based index, None out of bounds
slice_get(s, index) == IF index < Len(s) THEN Some(s[index + 1]) ELSE None

\* ------------------------------------------------------------------
\* The reference-counted expression heap: src/src/lib.rs
\*
\* An Expr is a handle on a reference-counted allocation holding an
\* ExprKind.  heap maps an allocation id to its cell (the ExprKind,
\* whose children are allocation ids, and the strong count); handle
\* maps each named handle of the calling code to the allocation it
\* owns a count of, or NoAlloc when the name holds nothing.
\* ------------------------------------------------------------------

MaxAllocs == 3

AllocIds == 1..MaxAllocs
NoAlloc == 0
Handles == {"a", "b"}

FreeCell == [kind |-> [kind |-> "Free"], strong |-> 0]
\* no &mut ExprKind is live.  A live one records the handle it was taken
\* from, the allocation it points into, and what the last make_mut did:
\* whether it copied, and the allocation it left
NoBorrow == [root |-> "none", at |-> NoAlloc, copied |-> FALSE, from |-> NoAlloc]

\* the Exprs an ExprKind owns, head first
Children(k) == IF k.kind = "Normal" THEN <<k.head>> \o k.contents ELSE <<>>

HasFree(hp) == \E id \in AllocIds : hp[id].strong = 0
FreshId(hp) ==
    CHOOSE id \in AllocIds :
        /\ hp[id].strong = 0
        /\ \A j \in AllocIds : j < id => hp[j].strong # 0

\* Rc::new
Rc_new(hp, kind) == [hp EXCEPT ![FreshId(hp)] = [kind |-> kind, strong |-> 1]]

\* Rc::clone, of one handle and of each handle of a sequence
Rc_clone(hp, id) == [hp EXCEPT ![id].strong = @ + 1]

RECURSIVE Rc_clone_all(_, _)
Rc_clone_all(hp, ids) ==
    IF ids = <<>> THEN hp
    ELSE Rc_clone_all(Rc_clone(hp, Head(ids)), Tail(ids))

\* Rc's drop: the count goes down by one, and the last owner frees the
\* cell and drops the Exprs its ExprKind owns
RECURSIVE Rc_drop(_, _), Rc_drop_all(_, _)
Rc_drop(hp, id) ==
    IF hp[id].strong > 1
    THEN [hp EXCEPT ![id].strong = @ - 1]
    ELSE Rc_drop_all([hp EXCEPT ![id] = FreeCell], Children(hp[id].kind))

Rc_drop_all(hp, ids) ==
    IF ids = <<>> THEN hp
    ELSE Rc_drop_all(Rc_drop(hp, Head(ids)), Tail(ids))

\* the expression a handle denotes: the cell's ExprKind with every child
\* id unfolded to the expression it denotes
RECURSIVE TreeAt(_, _)
TreeAt(hp, id) ==
    LET k == hp[id].kind IN
    IF k.kind = "Normal"
    THEN Normal(TreeAt(hp, k.head),
                [i \in 1..Len(k.contents) |-> TreeAt(hp, k.contents[i])])
    ELSE k

\* a mutant of Number_real: the NaN test is missing
Number_real_unchecked(r) == Some(Real(r))

\* Number::real: a NaN is refused with a panic
Number_real(r) ==
    IF is_nan(r) THEN Panic ELSE Some(Real(r))

\* Expr::number and Expr::new: a fresh allocation of the given kind
Expr_new(hp, kind) == Rc_new(hp, kind)

\* Expr::real(r): the ExprKind of the real r, refused with a panic when r
\* is a NaN, as Number::real refuses it
Expr_real(r) == Number_real(r)

\* Expr::normal(head, contents) on clones of existing handles
Expr_normal(hp, head, contents) ==
    Expr_new(Rc_clone_all(hp, <<head>> \o contents), Normal(head, contents))

Live(h) == handle[h] # NoAlloc
Unborrowed(h) == borrow.root # h

InitHeap ==
    /\ heap = [id \in AllocIds |-> FreeCell]
    /\ handle = [h \in Handles |-> NoAlloc]
    /\ borrow = NoBorrow
    /\ last = [op |-> "init", h |-> "none", arg |-> "none", result |-> "ok"]
    /\ IdleSymbol
    /\ IdleWxf

Done(op, h, arg, result) ==
    last' = [op |-> op, h |-> h, arg |-> arg, result |-> result]

\* h = Expr::number(Number::Integer(n))
ExprNumber(h, n) ==
    /\ ~Live(h)
    /\ HasFree(heap)
    /\ heap' = Expr_new(heap, Integer(n))
    /\ handle' = [handle EXCEPT ![h] = FreshId(heap)]
    /\ Done("Expr::number", h, "none", "ok")
    /\ UNCHANGED <<borrow, symbolVars, wxfVars>>

\* h = Expr::number(Number::real(x))
ExprReal(h, x) ==
    /\ ~Live(h)
    /\ HasFree(heap)
    /\ LET r == Number_real(x) IN
       IF r = Panic
       THEN /\ Done("Number::real", h, x, "panic")
            /\ UNCHANGED <<heap, handle>>
       ELSE /\ heap' = Expr_new(heap, r.value)
            /\ handle' = [handle EXCEPT ![h] = FreshId(heap)]
            /\ Done("Number::real", h, x, "ok")
    /\ UNCHANGED <<borrow, symbolVars, wxfVars>>

\* h = Expr::normal(g.clone(), args.iter().map(Expr::clone).collect())
ExprNormal(h, g, args) ==
    /\ ~Live(h)
    /\ Live(g)
    /\ Unborrowed(g)
    /\ \A i \in 1..Len(args) : Live(args[i]) /\ Unborrowed(args[i])
    /\ HasFree(heap)
    /\ LET ids == [i \in 1..Len(args) |-> handle[args[i]]] IN
       /\ heap' = Expr_normal(heap, handle[g], ids)
       /\ handle' = [handle EXCEPT ![h] = FreshId(heap)]
    /\ Done("Expr::normal", h, "none", "ok")
    /\ UNCHANGED <<borrow, symbolVars, wxfVars>>

\* h = g.clone()
Clone(h, g) ==
    /\ ~Live(h)
    /\ Live(g)
    /\ Unborrowed(g)
    /\ heap' = Rc_clone(heap, handle[g])
    /\ handle' = [handle EXCEPT ![h] = handle[g]]
    /\ Done("clone", h, g, "ok")
    /\ UNCHANGED <<borrow, symbolVars, wxfVars>>

\* h = g.normal_head(): Some(normal.head.clone()) of a Normal, the head's
\* count going up by one; None of anything else
ExprNormalHead(h, g) ==
    /\ ~Live(h)
    /\ Live(g)
    /\ Unborrowed(g)
    /\ LET k == heap[handle[g]].kind IN
       IF k.kind = "Normal"
       THEN /\ heap' = Rc_clone(heap, k.head)
            /\ handle' = [handle EXCEPT ![h] = k.head]
            /\ Done("normal_head", h, g, "some")
       ELSE /\ UNCHANGED <<heap, handle>>
            /\ Done("normal_head", h, g, "none")
    /\ UNCHANGED <<borrow, symbolVars, wxfVars>>

\* h = g.head(): normal.head.clone() of a Normal; of anything else a new
\* Expr::symbol of its symbol_head()
ExprHeadAt(h, g) ==
    /\ ~Live(h)
    /\ Live(g)
    /\ Unborrowed(g)
    /\ LET k == heap[handle[g]].kind IN
       IF k.kind = "Normal"
       THEN /\ heap' = Rc_clone(heap, k.head)
            /\ handle' = [handle EXCEPT ![h] = k.head]
            /\ Done("head", h, g, "cloned")
       ELSE /\ HasFree(heap)
            /\ heap' = Expr_new(heap, Expr_head(k))
            /\ handle' = [handle EXCEPT ![h] = FreshId(heap)]
            /\ Done("head", h, g, "new")
    /\ UNCHANGED <<borrow, symbolVars, wxfVars>>

\* h = g.normal_part(index).cloned(): a clone of the argument at a
\* zero-based index of a Normal, when there is one
ExprNormalPartCloned(h, g, index) ==
    /\ ~Live(h)
    /\ Live(g)
    /\ Unborrowed(g)
    /\ LET k == heap[handle[g]].kind
           part == IF k.kind = "Normal" THEN slice_get(k.contents, index) ELSE None
       IN
       IF part # None
       THEN /\ heap' = Rc_clone(heap, part.value)
            /\ handle' = [handle EXCEPT ![h] = part.value]
            /\ Done("normal_part", h, g, "some")
       ELSE /\ UNCHANGED <<heap, handle>>
            /\ Done("normal_part", h, g, "none")
    /\ UNCHANGED <<borrow, symbolVars, wxfVars>>

\* drop(h)
Drop(h) ==
    /\ Live(h)
    /\ Unborrowed(h)
    /\ heap' = Rc_drop(heap, handle[h])
    /\ handle' = [handle EXCEPT ![h] = NoAlloc]
    /\ Done("drop", h, "none", "ok")
    /\ UNCHANGED <<borrow, symbolVars, wxfVars>>

\* a mutant of Rc_make_mut: the cell is never copied
Rc_make_mut_in_place(hp, id) == [heap |-> hp, at |-> id, copied |-> FALSE]

\* a mutant of Rc_make_mut: the cell is copied whatever its count
Rc_make_mut_always_copy(hp, id) ==
    LET kind == hp[id].kind
        hp1 == Rc_clone_all(hp, Children(kind))
    IN  [heap |-> Rc_drop(Rc_new(hp1, kind), id),
         at |-> FreshId(hp1),
         copied |-> TRUE]

\* Rc::make_mut on the handle of allocation id: a sole owner is handed its
\* own cell; a shared handle gets a fresh cell holding a clone of the
\* ExprKind (each child handle cloned) and gives up its count of the old one
Rc_make_mut(hp, id) ==
    IF hp[id].strong = 1
    THEN [heap |-> hp, at |-> id, copied |-> FALSE]
    ELSE LET kind == hp[id].kind
             hp1 == Rc_clone_all(hp, Children(kind))
         IN  [heap |-> Rc_drop(Rc_new(hp1, kind), id),
              at |-> FreshId(hp1),
              copied |-> TRUE]

\* let m = h.kind_mut();
KindMut(h) ==
    /\ Live(h)
    /\ borrow = NoBorrow
    /\ heap[handle[h]].strong = 1 \/ HasFree(heap)
    /\ LET r == Rc_make_mut(heap, handle[h]) IN
       /\ heap' = r.heap
       /\ handle' = [handle EXCEPT ![h] = r.at]
       /\ borrow' = [root |-> h, at |-> r.at, copied |-> r.copied,
                     from |-> IF r.copied THEN handle[h] ELSE NoAlloc]
       /\ Done("kind_mut", h, "none", IF r.copied THEN "copied" ELSE "in place")
    /\ UNCHANGED <<symbolVars, wxfVars>>

\* if let ExprKind::Normal(normal) = m { m = normal.head.kind_mut(); }
HeadKindMut ==
    /\ borrow # NoBorrow
    /\ heap[borrow.at].kind.kind = "Normal"
    /\ heap[heap[borrow.at].kind.head].strong = 1 \/ HasFree(heap)
    /\ LET r == Rc_make_mut(heap, heap[borrow.at].kind.head) IN
       /\ heap' = [r.heap EXCEPT ![borrow.at].kind.head = r.at]
       /\ borrow' = [borrow EXCEPT
                        !.at = r.at,
                        !.copied = r.copied,
                        !.from = IF r.copied THEN heap[borrow.at].kind.head
                                 ELSE NoAlloc]
       /\ Done("head.kind_mut", borrow.root, "none",
               IF r.copied THEN "copied" ELSE "in place")
    /\ UNCHANGED <<handle, symbolVars, wxfVars>>

\* *m = kind: the new ExprKind is stored and the old one dropped
Assign(hp, at, kind) ==
    Rc_drop_all([hp EXCEPT ![at].kind = kind], Children(hp[at].kind))

\* *m = ExprKind::Integer(..) or ExprKind::Real(..)
WriteAtom(k) ==
    /\ borrow # NoBorrow
    /\ heap' = Assign(heap, borrow.at, k)
    /\ Done("write", borrow.root, "none", "ok")
    /\ UNCHANGED <<handle, borrow, symbolVars, wxfVars>>

\* *m = ExprKind::Normal(Normal { head: g.clone(), contents: clones of args })
WriteNormal(g, args) ==
    /\ borrow # NoBorrow
    /\ Live(g)
    /\ Unborrowed(g)
    /\ \A i \in 1..Len(args) : Live(args[i]) /\ Unborrowed(args[i])
    /\ LET ids == [i \in 1..Len(args) |-> handle[args[i]]] IN
       heap' = Assign(Rc_clone_all(heap, <<handle[g]>> \o ids), borrow.at,
                      Normal(handle[g], ids))
    /\ Done("write", borrow.root, "none", "ok")
    /\ UNCHANGED <<handle, borrow, symbolVars, wxfVars>>

\* the mutable borrow ends
EndBorrow ==
    /\ borrow # NoBorrow
    /\ borrow' = NoBorrow
    /\ Done("end borrow", borrow.root, "none", "ok")
    /\ UNCHANGED <<heap, handle, symbolVars, wxfVars>>

MaxArgs == 1

HeapInts == {I64(1)}
HeapReals == {PosZero, NegZero, QuietNaN}
HeapAtoms == {Integer(I64(1)), Real(PosZero), Real(NegZero)}
ArgLists == UNION {[1..n -> Handles] : n \in 0..MaxArgs}

Next ==
    \/ \E h \in Handles, n \in HeapInts : ExprNumber(h, n)
    \/ \E h \in Handles, x \in HeapReals : ExprReal(h, x)
    \/ \E h, g \in Handles, args \in ArgLists : ExprNormal(h, g, args)
    \/ \E h, g \in Handles : Clone(h, g)
    \/ \E h, g \in Handles : ExprNormalHead(h, g)
    \/ \E h, g \in Handles : ExprHeadAt(h, g)
    \/ \E h, g \in Handles, index \in 0..MaxArgs :
           ExprNormalPartCloned(h, g, index)
    \/ \E h \in Handles : Drop(h)
    \/ \E h \in Handles : KindMut(h)
    \/ HeadKindMut
    \/ \E k \in HeapAtoms : WriteAtom(k)
    \/ \E g \in Handles, args \in ArgLists : WriteNormal(g, args)
    \/ EndBorrow

Spec == InitHeap /\ [][Next]_vars


\* ------------------------------------------------------------------
\* Equality and hashing of handles: the derived PartialEq and Hash of
\* Expr, ExprKind and Normal, through the reference-counted pointer.
\* ------------------------------------------------------------------

RECURSIVE Expr_eq_at(_, _, _)

\* a mutant of ExprKind_eq_at: the arguments of a Normal are compared as a
\* set, whatever their order
ExprKind_eq_at_unordered(hp, j, k) ==
    /\ j.kind = k.kind
    /\ CASE j.kind = "Integer" -> j.int = k.int
         [] j.kind = "Real" -> f64_eq(j.real, k.real)
         [] j.kind = "String" -> j.text = k.text
         [] j.kind = "Symbol" -> j.text = k.text
         [] j.kind = "Normal" ->
                /\ Expr_eq_at(hp, j.head, k.head)
                /\ Len(j.contents) = Len(k.contents)
                /\ \A i \in 1..Len(j.contents) :
                       \E n \in 1..Len(k.contents) :
                           Expr_eq_at(hp, j.contents[i], k.contents[n])
                /\ \A n \in 1..Len(k.contents) :
                       \E i \in 1..Len(j.contents) :
                           Expr_eq_at(hp, j.contents[i], k.contents[n])

ExprKind_eq_at(hp, j, k) ==
    /\ j.kind = k.kind
    /\ CASE j.kind = "Integer" -> j.int = k.int
         [] j.kind = "Real" -> f64_eq(j.real, k.real)
         [] j.kind = "String" -> j.text = k.text
         [] j.kind = "Symbol" -> j.text = k.text
         [] j.kind = "Normal" ->
                /\ Expr_eq_at(hp, j.head, k.head)
                /\ Len(j.contents) = Len(k.contents)
                /\ \A i \in 1..Len(j.contents) :
                       Expr_eq_at(hp, j.contents[i], k.contents[i])

\* Expr == Expr: the pointer's PartialEq, equal at once for one allocation
\* and otherwise comparing the two ExprKinds
Expr_eq_at(hp, a, b) == a = b \/ ExprKind_eq_at(hp, hp[a].kind, hp[b].kind)

\* f64::integer_decode: the mantissa (a subnormal's 52 fraction bits
\* shifted left by one, else the fraction under the hidden bit 2^52), the
\* exponent and the sign.  The mantissa is the hidden bit and three limbs.
integer_decode(x) ==
    [man |-> IF x.exp = 0
             THEN [hidden |-> x.m1 \div 524288,
                   m1 |-> ((x.m1 * 2) % 1048576) + (x.m2 \div 32768),
                   m2 |-> ((x.m2 * 2) % 65536) + (x.m3 \div 32768),
                   m3 |-> (x.m3 * 2) % 65536]
             ELSE [hidden |-> 1, m1 |-> x.m1, m2 |-> x.m2, m3 |-> x.m3],
     exp |-> x.exp - 1075,
     sign |-> IF x.sign = 0 THEN 1 ELSE -1]

\* raw_double_bits of ordered_float: the u64 made of the mantissa's low 52
\* bits, the exponent's low 11 bits and a top bit that is set for a
\* positive sign; the u64 is given by the fields of F64
raw_double_bits(x) ==
    LET d == integer_decode(x) IN
    F64(IF d.sign > 0 THEN 1 ELSE 0, d.exp % 2048, d.man.m1, d.man.m2, d.man.m3)

\* NotNan<f64>'s Hash: the u64 handed to the Hasher.  The value is added
\* to 0.0 first, which turns -0.0 into 0.0 and leaves every other value.
F64_hash(x) == raw_double_bits(IF IsZero(x) THEN PosZero ELSE x)

\* what hashing an Expr feeds the Hasher, one element per write: the
\* variant's discriminant, then the fields (an i64 and an f64 as one value,
\* a str as its text and 0xff, a Vec as its length and its elements)
RECURSIVE Expr_hash(_, _), Expr_hash_all(_, _)
Expr_hash(hp, id) ==
    LET k == hp[id].kind IN
    CASE k.kind = "Normal" ->
             <<0>> \o Expr_hash(hp, k.head) \o <<Len(k.contents)>>
                   \o Expr_hash_all(hp, k.contents)
      [] k.kind = "Integer" -> <<1, 0, k.int>>
      [] k.kind = "Real" -> <<1, 1, F64_hash(k.real)>>
      [] k.kind = "String" -> <<2, k.text, 255>>
      [] k.kind = "Symbol" -> <<3, k.text, 255>>

Expr_hash_all(hp, ids) ==
    IF ids = <<>> THEN <<>>
    ELSE Expr_hash(hp, Head(ids)) \o Expr_hash_all(hp, Tail(ids))

\* a mutant of ExprRefCmp_eq: the wrapped expressions are compared by value
ExprRefCmp_eq_by_value(a, b) == Expr_eq_at(heap, a, b)

\* ExprRefCmp == ExprRefCmp and ExprRefHash == ExprRefHash: ptr_eq
ExprRefCmp_eq(a, b) == a = b

\* the wrappers' Hash: the address of the allocation
ExprRefCmp_hash(a) == <<a>>

LiveAllocs == {id \in AllocIds : heap[id].strong > 0}

\* the tree with every real zero written as +0.0: two trees are
\* structurally the same, leaf values compared as values, iff these agree
RECURSIVE Canon(_)
Canon(t) ==
    CASE t.kind = "Real" -> IF IsZero(t.real) THEN Real(PosZero) ELSE t
      [] t.kind = "Normal" ->
             Normal(Canon(t.head),
                    [i \in 1..Len(t.contents) |-> Canon(t.contents[i])])
      [] OTHER -> t

\* C5: a mutation made through h.kind_mut() (the make_mut, a nested
\* make_mut on the head, and every write through the borrow) leaves every
\* other live handle on its allocation and denoting the expression it
\* denoted before the step.
C5_CopyOnWriteIsolation ==
    [][\A g \in Handles :
          (/\ borrow' # NoBorrow
           /\ last'.op \in {"kind_mut", "head.kind_mut", "write"}
           /\ g # borrow'.root
           /\ Live(g))
          => /\ handle'[g] = handle[g]
             /\ TreeAt(heap', handle'[g]) = TreeAt(heap, handle[g])]_vars

\* a was on b's allocation, a.kind_mut() copied, and the write through it
\* made a a real while b still reads the integer
C5_Witness ==
    /\ last.op = "write"
    /\ borrow.root = "a"
    /\ borrow.at = handle["a"]
    /\ borrow.copied
    /\ borrow.from = handle["b"]
    /\ TreeAt(heap, handle["b"]) = Integer(I64(1))
    /\ TreeAt(heap, handle["a"]) = Real(NegZero)

\* the effect of one make_mut that took the handle from allocation old to
\* allocation new
MakeMutEffect(old, new) ==
    IF heap[old].strong = 1
    THEN /\ new = old
         /\ heap'[old] = heap[old]
         /\ \A id \in AllocIds : heap'[id].strong = heap[id].strong
    ELSE /\ new # old
         /\ heap[new].strong = 0
         /\ heap'[new].strong = 1
         /\ TreeAt(heap', new) = TreeAt(heap, old)
         /\ Expr_eq_at(heap', new, old)
         /\ heap'[old].kind = heap[old].kind
         /\ heap'[old].strong = heap[old].strong - 1

\* C6: kind_mut() on a sole owner leaves the handle on its allocation and
\* the heap as it is; on a shared handle it moves that handle alone to a
\* fresh allocation of count one holding an equal value, and the original
\* keeps its value and loses exactly one owner.  The same holds of a
\* kind_mut() on the head handle inside a borrowed Normal.
C6_KindMutCopiesOnlyWhenShared ==
    [][/\ \A h \in Handles :
              (borrow = NoBorrow /\ borrow'.root = h)
              => /\ MakeMutEffect(handle[h], handle'[h])
                 /\ \A g \in Handles \ {h} : handle'[g] = handle[g]
       /\ (borrow # NoBorrow /\ borrow' # NoBorrow /\ last'.op = "head.kind_mut"
              /\ <<heap, borrow, last>> # <<heap', borrow', last'>>)
              => /\ MakeMutEffect(heap[borrow.at].kind.head,
                                  heap'[borrow.at].kind.head)
                 /\ handle' = handle]_vars

\* b shares a's allocation, then b.kind_mut() copies: b alone moved
C6_Witness ==
    /\ last = [op |-> "kind_mut", h |-> "b", arg |-> "none", result |-> "copied"]
    /\ borrow.from = handle["a"]
    /\ handle["b"] # handle["a"]
    /\ heap[handle["a"]].strong = 1
    /\ heap[handle["b"]].strong = 1
    /\ TreeAt(heap, handle["a"]) = Normal(Integer(I64(1)), <<Integer(I64(1))>>)
    /\ TreeAt(heap, handle["b"]) = Normal(Integer(I64(1)), <<Integer(I64(1))>>)

\* ------------------------------------------------------------------
\* Equal expressions in one and in several allocations.  Two expressions
\* are laid out on the heap as the constructors and clone() lay them
\* out, and ==, hash and as_wxf() are called on their handles.
\* ------------------------------------------------------------------

EqHandles == {"a", "b", "c"}

\* the allocations a handle reaches, itself included
RECURSIVE Reach(_, _)
Reach(hp, id) ==
    LET k == hp[id].kind IN
    {id} \cup (IF k.kind = "Normal"
               THEN Reach(hp, k.head)
                    \cup UNION {Reach(hp, k.contents[i]) : i \in 1..Len(k.contents)}
               ELSE {})

\* Expr::new and Expr::normal of the value t on a heap that grows by one
\* cell each allocation.  With share, an expression equal in every bit to
\* one already allocated at lo or later is a clone() of that one;
\* otherwise every node is constructed afresh, children first.
RECURSIVE Expr_build(_, _, _, _), Expr_build_all(_, _, _, _, _)
Expr_build(hp, t, share, lo) ==
    LET found == {id \in lo..Len(hp) : TreeAt(hp, id) = t} IN
    IF share /\ found # {}
    THEN LET id == CHOOSE id \in found : \A j \in found : id <= j
         IN [hp |-> Rc_clone(hp, id), id |-> id]
    ELSE IF t.kind = "Normal"
    THEN LET h == Expr_build(hp, t.head, share, lo)
             c == Expr_build_all(h.hp, t.contents, share, lo, <<>>)
         IN [hp |-> Append(c.hp, [kind |-> Normal(h.id, c.ids), strong |-> 1]),
             id |-> Len(c.hp) + 1]
    ELSE [hp |-> Append(hp, [kind |-> t, strong |-> 1]), id |-> Len(hp) + 1]

Expr_build_all(hp, ts, share, lo, ids) ==
    IF ts = <<>> THEN [hp |-> hp, ids |-> ids]
    ELSE LET x == Expr_build(hp, Head(ts), share, lo)
         IN Expr_build_all(x.hp, Tail(ts), share, lo, Append(ids, x.id))

\* Expr::write_internal and Normal::write_internal through the pointers:
\* the ExprKind is read from the allocation, the children are followed
RECURSIVE Expr_write_internal_at(_, _, _), WriteEach_at(_, _, _)
RECURSIVE WriteEach_at_once(_, _, _)

\* a mutant of WriteEach_at: an argument that is the very allocation of
\* the argument after it is not written
WriteEach_at_once(hp, ids, out) ==
    IF ids = <<>> THEN out
    ELSE IF Len(ids) > 1 /\ ids[1] = ids[2]
         THEN WriteEach_at_once(hp, Tail(ids), out)
         ELSE WriteEach_at_once(hp, Tail(ids),
                                Expr_write_internal_at(hp, Head(ids), out))

\* for v in self.contents.iter() { v.write_internal(out) }
WriteEach_at(hp, ids, out) ==
    IF ids = <<>> THEN out
    ELSE WriteEach_at(hp, Tail(ids), Expr_write_internal_at(hp, Head(ids), out))

Normal_write_internal_at(hp, fx, out) ==
    WriteEach_at(hp, fx.contents,
        Expr_write_internal_at(hp, fx.head,
            Append(out, TagNormal) \o encode_var_vec(Len(fx.contents))))

Expr_write_internal_at(hp, id, out) ==
    LET k == hp[id].kind IN
    CASE k.kind = "Integer" -> Append(out, TagInteger) \o i64_to_le_bytes(k.int)
      [] k.kind = "Real" -> Append(out, TagReal) \o f64_to_le_bytes(k.real)
      [] k.kind = "String" -> StringAtom_write(k.text, out)
      [] k.kind = "Symbol" -> Symbol_write_internal(k.text, out)
      [] k.kind = "Normal" -> Normal_write_internal_at(hp, k, out)

as_wxf_at(hp, id) == Expr_write_internal_at(hp, id, HeaderWxf)

\* the expressions compared: leaves of every variant, two unequal values
\* of each, the two zeros, a string and a symbol of one text; Normals of
\* no, one, two and three arguments, in both orders, under two heads;
\* Normals inside Normals, as argument and as head
EqSymbolA == <<97, Grave, 98>>
EqSymbolB == <<97, Grave, 99>>

EqLeaves ==
    {Integer(I64(1)), Integer(I64(-2)),
     Real(PosZero), Real(NegZero), Real(OnePointFive),
     String(EqSymbolA), String(<<97>>),
     Symbol(EqSymbolA), Symbol(EqSymbolB)}

EqArgs == {Integer(I64(1)), Integer(I64(-2)), Real(PosZero), Real(NegZero)}

EqArgLists ==
    {<<>>} \cup {<<x>> : x \in EqArgs} \cup {<<x, y>> : x, y \in EqArgs}

EqNormals ==
    {Normal(Symbol(EqSymbolA), c) : c \in EqArgLists}
    \cup {Normal(Symbol(EqSymbolB), <<>>),
          Normal(Symbol(EqSymbolB), <<Integer(I64(1))>>),
          Normal(Symbol(EqSymbolB), <<Integer(I64(1)), Real(PosZero)>>),
          Normal(Symbol(EqSymbolA), <<Symbol(EqSymbolA), Symbol(EqSymbolA)>>),
          Normal(Symbol(EqSymbolA),
                 <<Integer(I64(1)), Real(PosZero), Real(NegZero)>>),
          Normal(Symbol(EqSymbolA),
                 <<Real(NegZero), Real(PosZero), Integer(I64(1))>>),
          Normal(Normal(Symbol(EqSymbolA), <<>>), <<Integer(I64(1))>>),
          Normal(Normal(Symbol(EqSymbolA), <<>>), <<Integer(I64(-2))>>),
          Normal(Symbol(EqSymbolA),
                 <<Normal(Normal(Symbol(EqSymbolA), <<>>),
                          <<Integer(I64(1))>>)>>),
          Normal(Symbol(EqSymbolA),
                 <<Normal(Symbol(EqSymbolA), <<Real(NegZero)>>),
                   Normal(Symbol(EqSymbolA), <<Real(PosZero)>>)>>),
          Normal(Symbol(EqSymbolA),
                 <<Normal(Symbol(EqSymbolA), <<Real(PosZero)>>),
                   Normal(Symbol(EqSymbolA), <<Real(PosZero)>>)>>)}

EqTrees == EqLeaves \cup EqNormals

\* a is built with or without clones of its own subexpressions; b is built
\* apart from a, with or without clones of its own, or out of clones of
\* what a holds; c is a.clone()
OwnLayouts == {"fresh", "own"}
Layouts == {"fresh", "own", "shared"}

NoCall == <<>>

InitEq ==
    /\ \E t1, t2 \in EqTrees, la \in OwnLayouts, lb \in Layouts :
           LET x == Expr_build(<<>>, t1, la = "own", 1)
               y == Expr_build(x.hp, t2, lb # "fresh",
                               IF lb = "shared" THEN 1 ELSE Len(x.hp) + 1)
           IN  /\ heap = Rc_clone(y.hp, x.id)
               /\ handle = [h \in EqHandles |-> IF h = "b" THEN y.id ELSE x.id]
    /\ borrow = NoBorrow
    /\ last = Pending
    /\ expr = <<>>
    /\ wire = [h \in EqHandles |-> NoCall]
    /\ IdleSymbol

\* g == h
ExprEq(g, h) ==
    /\ last' = [op |-> "eq", h |-> g, arg |-> h,
                result |-> Expr_eq_at(heap, handle[g], handle[h])]
    /\ UNCHANGED <<heap, handle, borrow, expr, wire, symbolVars>>

\* h.hash(&mut hasher)
ExprHash(h) ==
    /\ last' = [op |-> "hash", h |-> h, arg |-> "none",
                result |-> Expr_hash(heap, handle[h])]
    /\ UNCHANGED <<heap, handle, borrow, expr, wire, symbolVars>>

\* h.as_wxf()
ExprAsWxf(h) ==
    /\ wire' = [wire EXCEPT ![h] = as_wxf_at(heap, handle[h])]
    /\ UNCHANGED <<heap, handle, borrow, last, expr, symbolVars>>

NextEq ==
    \/ ExprEq("a", "b")
    \/ \E h \in {"a", "b"} : ExprHash(h)
    \/ \E h \in EqHandles : ExprAsWxf(h)

SpecEq == InitEq /\ [][NextEq]_vars

\* two handles with no allocation in common
Apart(g, h) == Reach(heap, handle[g]) \cap Reach(heap, handle[h]) = {}

\* C3 as stated: two as_wxf() calls on equal expressions returned the same
\* bytes.
C3_EqualImpliesSameBytes ==
    \A g, h \in EqHandles :
        (/\ wire[g] # NoCall
         /\ wire[h] # NoCall
         /\ Expr_eq_at(heap, handle[g], handle[h]))
        => wire[g] = wire[h]

\* C3 as amended: two as_wxf() calls on equal expressions that hold at each
\* real the same bit pattern returned the same bytes, whether the two
\* handles own one allocation, share some, or share none.
C3_EqualSameBitsImpliesSameBytes ==
    \A g, h \in EqHandles :
        (/\ wire[g] # NoCall
         /\ wire[h] # NoCall
         /\ Expr_eq_at(heap, handle[g], handle[h])
         /\ SameRealBits(TreeAt(heap, handle[g]), TreeAt(heap, handle[h])))
        => wire[g] = wire[h]

\* a, its clone c and b were encoded; b equals a, holds the same reals, and
\* has no allocation in common with a, whose two arguments are one
\* allocation while b's are two
C3_Witness ==
    /\ TreeAt(heap, handle["a"])
          = Normal(Symbol(EqSymbolA), <<Real(NegZero), Real(NegZero)>>)
    /\ TreeAt(heap, handle["b"]) = TreeAt(heap, handle["a"])
    /\ Apart("a", "b")
    /\ heap[handle["a"]].kind.contents[1] = heap[handle["a"]].kind.contents[2]
    /\ heap[handle["b"]].kind.contents[1] # heap[handle["b"]].kind.contents[2]
    /\ Expr_eq_at(heap, handle["a"], handle["b"])
    /\ SameRealBits(TreeAt(heap, handle["a"]), TreeAt(heap, handle["b"]))
    /\ wire["a"] = <<56, 58, 102, 2, 115, 3, 97, 96, 98,
                     114, 0, 0, 0, 0, 0, 0, 0, 128,
                     114, 0, 0, 0, 0, 0, 0, 0, 128>>
    /\ wire["b"] = wire["a"]
    /\ wire["c"] = wire["a"]

\* C7: two Exprs compare equal exactly when their trees are structurally
\* the same (same variant, same leaf value with 0.0 and -0.0 one value,
\* equal heads and element-wise equal contents in the same order), whether
\* or not they share allocations, and equal Exprs feed the hasher the same
\* input.  This holds of every two allocations of the heap, of the result
\* a == b returned, and of the hash a call returned against the hash of
\* every allocation equal to the one hashed.
C7_StructuralEquality ==
    LET allocs == DOMAIN heap
        tree == [id \in allocs |-> Canon(TreeAt(heap, id))]
        hash == [id \in allocs |-> Expr_hash(heap, id)]
    IN  /\ \A x, y \in allocs :
               x < y =>
                   LET same == tree[x] = tree[y] IN
                   /\ Expr_eq_at(heap, x, y) <=> same
                   /\ Expr_eq_at(heap, y, x) <=> same
                   /\ same => hash[x] = hash[y]
        /\ last.op = "eq"
              => (last.result <=> tree[handle[last.h]] = tree[handle[last.arg]])
        /\ last.op = "hash"
              => \A id \in allocs :
                     Expr_eq_at(heap, handle[last.h], id) => hash[id] = last.result

\* a == b returned true for two Normals of two arguments with no
\* allocation in common, b's real being the other zero
C7_Witness ==
    /\ last = [op |-> "eq", h |-> "a", arg |-> "b", result |-> TRUE]
    /\ Apart("a", "b")
    /\ TreeAt(heap, handle["a"])
          = Normal(Symbol(EqSymbolA), <<Integer(I64(1)), Real(NegZero)>>)
    /\ TreeAt(heap, handle["b"])
          = Normal(Symbol(EqSymbolA), <<Integer(I64(1)), Real(PosZero)>>)
    /\ Expr_hash(heap, handle["a"]) = Expr_hash(heap, handle["b"])

Constructors == {"Expr::number", "Number::real", "Expr::normal"}

\* C8: the wrappers of a handle and of its clone are equal and hash alike;
\* the wrapper of a newly constructed expression, and of a handle that
\* kind_mut() has just moved to its copy, equals no other handle's wrapper
\* even when the values are equal; and equal wrappers of two handles mean
\* one allocation with at least two owners.
C8_ReferenceIdentity ==
    /\ last.op = "clone"
          => /\ ExprRefCmp_eq(handle[last.h], handle[last.arg])
             /\ ExprRefCmp_hash(handle[last.h]) = ExprRefCmp_hash(handle[last.arg])
    /\ ((last.op \in Constructors /\ last.result = "ok")
           \/ (last.op = "kind_mut" /\ last.result = "copied"))
          => \A g \in Handles \ {last.h} :
                 Live(g) => ~ExprRefCmp_eq(handle[last.h], handle[g])
    /\ \A g, h \in Handles :
          (g # h /\ Live(g) /\ Live(h) /\ ExprRefCmp_eq(handle[g], handle[h]))
          => /\ heap[handle[g]].strong >= 2
             /\ heap[handle[g]] = heap[handle[h]]

\* b was constructed independently of a and equals it in value
C8_Witness ==
    /\ last.op = "Number::real"
    /\ last.h = "b"
    /\ last.result = "ok"
    /\ Live("a")
    /\ Live("b")
    /\ Expr_eq_at(heap, handle["a"], handle["b"])
    /\ ~ExprRefCmp_eq(handle["a"], handle["b"])

\* ------------------------------------------------------------------
\* Reals: Number::real and the serializer's serialize_f64
\* (src/src/number/mod.rs, src/src/serde_support/ser.rs)
\* ------------------------------------------------------------------

\* "System`Indeterminate" and "System`Infinity"
SystemIndeterminate ==
    <<83, 121, 115, 116, 101, 109, Grave,
      73, 110, 100, 101, 116, 101, 114, 109, 105, 110, 97, 116, 101>>
SystemInfinity ==
    <<83, 121, 115, 116, 101, 109, Grave, 73, 110, 102, 105, 110, 105, 116, 121>>

NegSignallingNaN == F64(1, 2047, 0, 0, 1)

\* Expr::symbol(Symbol::new(text)): Symbol::new panics on a malformed text
Expr_symbol_new(text) ==
    LET s == Symbol_new(text) IN
    IF s = Panic THEN Panic ELSE Some(Symbol(s.value))

\* Serializer::serialize_f64
serialize_f64(v) ==
    IF is_nan(v) THEN Expr_symbol_new(SystemIndeterminate)
    ELSE IF is_infinite(v) THEN Expr_symbol_new(SystemInfinity)
    ELSE Expr_real(v)

\* h = x.serialize(ExprSerializer)
SerializeF64(h, x) ==
    /\ ~Live(h)
    /\ HasFree(heap)
    /\ LET r == serialize_f64(x) IN
       IF r = Panic
       THEN /\ Done("serialize_f64", h, x, "panic")
            /\ UNCHANGED <<heap, handle>>
       ELSE /\ heap' = Expr_new(heap, r.value)
            /\ handle' = [handle EXCEPT ![h] = FreshId(heap)]
            /\ Done("serialize_f64", h, x, "ok")
    /\ UNCHANGED <<borrow, symbolVars, wxfVars>>

SampleF64 ==
    {PosZero, NegZero, OnePointFive, PosInfinity, NegInfinity, QuietNaN,
     NegSignallingNaN}

NextReal ==
    \/ \E h \in Handles, x \in SampleF64 : ExprReal(h, x)
    \/ \E h \in Handles, x \in SampleF64 : SerializeF64(h, x)
    \/ \E h, g \in Handles : Clone(h, g)
    \/ \E h, g \in Handles : ExprNormalHead(h, g)
    \/ \E h, g \in Handles : ExprHeadAt(h, g)
    \/ \E h \in Handles : Drop(h)

SpecReal == InitHeap /\ [][NextReal]_vars

\* C9: no live Expr holds a NaN real; Number::real panics exactly on a
\* NaN; and serialize_f64 never panics: it gives the symbol
\* System`Indeterminate for a NaN, System`Infinity for an infinite value,
\* and the real itself otherwise.
C9_NoNaNReal ==
    /\ \A id \in LiveAllocs :
           heap[id].kind.kind = "Real" => ~is_nan(heap[id].kind.real)
    /\ last.op = "Number::real"
           => (last.result = "panic" <=> is_nan(last.arg))
    /\ last.op = "serialize_f64"
           => /\ last.result = "ok"
              /\ heap[handle[last.h]].kind =
                     IF is_nan(last.arg) THEN Symbol(SystemIndeterminate)
                     ELSE IF is_infinite(last.arg) THEN Symbol(SystemInfinity)
                     ELSE Real(last.arg)

\* a NaN went through serialize_f64 and came out as System`Indeterminate
C9_Witness ==
    /\ last.op = "serialize_f64"
    /\ last.arg = NegSignallingNaN
    /\ last.result = "ok"
    /\ heap[handle[last.h]].kind = Symbol(SystemIndeterminate)

\* ------------------------------------------------------------------
\* The parts of validated names: Symbol::context, Symbol::symbol_name,
\* Context::join, Context::components, RelativeContext::components
\* (src/src/symbol.rs).  A validated name is its text.
\* ------------------------------------------------------------------

\* a mutant of rfind: the first occurrence is found, not the last
find(c, s) ==
    IF \A i \in 1..Len(s) : s[i] # c THEN None
    ELSE Some((CHOOSE i \in 1..Len(s) :
                   s[i] = c /\ \A j \in 1..(i - 1) : s[j] # c) - 1)

\* str::rfind(c): the zero-based index of the last c, or None
rfind(c, s) ==
    IF \A i \in 1..Len(s) : s[i] # c THEN None
    ELSE Some((CHOOSE i \in 1..Len(s) :
                   s[i] = c /\ \A j \in (i + 1)..Len(s) : s[j] # c) - 1)

\* str::split_at(mid)
split_at(s, mid) == <<SubSeq(s, 1, mid), SubSeq(s, mid + 1, Len(s))>>

\* SymbolRef::context: the text up to and including the last "`"; the
\* expect panics when there is none
SymbolRef_context(string) ==
    LET last_grave == rfind(Grave, string) IN
    IF last_grave = None THEN Panic
    ELSE Some(split_at(string, last_grave.value + 1)[1])

\* SymbolRef::symbol_name: the text after the last "`"
SymbolRef_symbol_name(string) ==
    LET last_grave == rfind(Grave, string) IN
    IF last_grave = None THEN Panic
    ELSE Some(split_at(string, last_grave.value + 1)[2])

\* Symbol::context and Symbol::symbol_name go through as_symbol_ref
Symbol_context(s) == SymbolRef_context(s)
Symbol_symbol_name(s) == SymbolRef_symbol_name(s)

\* a mutant of Context_join: the name is put in front of the context
Context_join_in_front(c, name) ==
    LET r == Context_try_new(name \o <<Grave>> \o c) IN
    IF r = None THEN Panic ELSE r

\* Context::join: format!("{}{}`", context, name), validated, the expect
\* panicking on None
Context_join(c, name) ==
    LET r == Context_try_new(c \o name \o <<Grave>>) IN
    IF r = None THEN Panic ELSE r

\* str::split(c): the pieces between the occurrences of c, empty ones kept
RECURSIVE split(_, _)
split(c, s) ==
    IF find(c, s) = None THEN <<s>>
    ELSE LET k == find(c, s).value IN
         <<SubSeq(s, 1, k)>> \o split(c, SubSeq(s, k + 2, Len(s)))

\* .filter(|comp| !comp.is_empty())
filter_non_empty(comps) == SelectSeq(comps, LAMBDA comp : comp # <<>>)

\* .map(|comp| SymbolNameRef::try_new(comp).expect(..)).collect()
map_try_new(comps) ==
    IF \E i \in 1..Len(comps) : SymbolNameRef_try_new(comps[i]) = None
    THEN Panic
    ELSE Some([i \in 1..Len(comps) |-> SymbolNameRef_try_new(comps[i]).value])

\* a mutant of Context_components: the empty pieces are not removed
Context_components_unfiltered(c) == map_try_new(split(Grave, c))

\* Context::components
Context_components(c) == map_try_new(filter_non_empty(split(Grave, c)))

\* RelativeContext::components
RelativeContext_components(c) == map_try_new(filter_non_empty(split(Grave, c)))

MaxNameLen == 2

\* the validated names handed to join
NameArgs ==
    {t \in Texts : Len(t) <= MaxNameLen /\ SymbolNameRef_try_new(t) # None}

InitNames ==
    /\ input \in Texts
    /\ outcome = Pending
    /\ IdleWxf
    /\ IdleHeap

Returned(op, arg, result) ==
    outcome' = [op |-> op, arg |-> arg, result |-> result]

\* Symbol::try_new(input).unwrap().context()
SymbolContext ==
    /\ outcome = Pending
    /\ Symbol_try_new(input) # None
    /\ Returned("Symbol::context", <<>>, Symbol_context(Symbol_try_new(input).value))
    /\ UNCHANGED <<input, wxfVars, heapVars>>

\* Symbol::try_new(input).unwrap().symbol_name()
SymbolSymbolName ==
    /\ outcome = Pending
    /\ Symbol_try_new(input) # None
    /\ Returned("Symbol::symbol_name", <<>>,
                Symbol_symbol_name(Symbol_try_new(input).value))
    /\ UNCHANGED <<input, wxfVars, heapVars>>

\* Context::try_new(input).unwrap().join(name)
ContextJoin(name) ==
    /\ outcome = Pending
    /\ Context_try_new(input) # None
    /\ Returned("Context::join", name,
                Context_join(Context_try_new(input).value, name))
    /\ UNCHANGED <<input, wxfVars, heapVars>>

\* Context::try_new(input).unwrap().components()
ContextComponents ==
    /\ outcome = Pending
    /\ Context_try_new(input) # None
    /\ Returned("Context::components", <<>>,
                Context_components(Context_try_new(input).value))
    /\ UNCHANGED <<input, wxfVars, heapVars>>

\* RelativeContext::try_new(input).unwrap().components()
RelativeContextComponents ==
    /\ outcome = Pending
    /\ RelativeContext_try_new(input) # None
    /\ Returned("RelativeContext::components", <<>>,
                RelativeContext_components(RelativeContext_try_new(input).value))
    /\ UNCHANGED <<input, wxfVars, heapVars>>

NextNames ==
    \/ SymbolContext
    \/ SymbolSymbolName
    \/ \E name \in NameArgs : ContextJoin(name)
    \/ ContextComponents
    \/ RelativeContextComponents

SpecNames == InitNames /\ [][NextNames]_vars

\* s is p followed by r, p ends in "`" and r holds no "`"
SplitAtLastGrave(s, p, r) ==
    /\ s = p \o r
    /\ Len(p) >= 1
    /\ p[Len(p)] = Grave
    /\ \A i \in 1..Len(r) : r[i] # Grave

\* C12: on a symbol from try_new, context() is the text up to and including
\* the last "`" and symbol_name() the rest; neither panics, the two put
\* together are the text, the first is a context for Context::try_new and
\* the second a name for SymbolName::try_new.
C12_ContextAndName ==
    /\ outcome.op = "Symbol::context" =>
          /\ outcome.result # Panic
          /\ Symbol_symbol_name(input) # Panic
          /\ SplitAtLastGrave(input, outcome.result.value,
                              Symbol_symbol_name(input).value)
          /\ Context_try_new(outcome.result.value) = Some(outcome.result.value)
    /\ outcome.op = "Symbol::symbol_name" =>
          /\ outcome.result # Panic
          /\ Symbol_context(input) # Panic
          /\ SplitAtLastGrave(input, Symbol_context(input).value,
                              outcome.result.value)
          /\ SymbolName_try_new(outcome.result.value) = Some(outcome.result.value)

\* the context of a`$`a is a`$`
C12_Witness ==
    /\ input = <<97, Grave, Dollar, Grave, 97>>
    /\ outcome.op = "Symbol::context"
    /\ outcome.result = Some(<<97, Grave, Dollar, Grave>>)

\* C13: join on a context from try_new and a validated name never panics
\* and gives the context whose text is the context's text, the name and
\* "`"; its components are the context's components and then the name.
C13_Join ==
    outcome.op = "Context::join" =>
        /\ outcome.result = Some(input \o outcome.arg \o <<Grave>>)
        /\ Context_try_new(outcome.result.value) # None
        /\ Context_components(outcome.result.value)
               = Some(Context_components(input).value \o <<outcome.arg>>)

\* a`$` joined with a5 is a`$`a5`
C13_Witness ==
    /\ input = <<97, Grave, Dollar, Grave>>
    /\ outcome.op = "Context::join"
    /\ outcome.arg = <<97, 53>>
    /\ outcome.result = Some(<<97, Grave, Dollar, Grave, 97, 53, Grave>>)

\* every segment followed by "`", in order
Rejoin(comps) == Concat([i \in 1..Len(comps) |-> comps[i] \o <<Grave>>])

\* C14: components() of a context or a relative context from try_new never
\* panics and returns the name segments from left to right, none empty:
\* each followed by "`" (after one leading "`" for a relative context)
\* they give back the text.
C14_Components ==
    /\ outcome.op = "Context::components" =>
          /\ outcome.result # Panic
          /\ \A i \in 1..Len(outcome.result.value) :
                 IsNameSegment(outcome.result.value[i])
          /\ Rejoin(outcome.result.value) = input
    /\ outcome.op = "RelativeContext::components" =>
          /\ outcome.result # Panic
          /\ \A i \in 1..Len(outcome.result.value) :
                 IsNameSegment(outcome.result.value[i])
          /\ <<Grave>> \o Rejoin(outcome.result.value) = input

\* the components of a`$5` are a and $5
C14_Witness ==
    /\ input = <<97, Grave, Dollar, 53, Grave>>
    /\ outcome.op = "Context::components"
    /\ outcome.result = Some(<<(<<97>>), <<Dollar, 53>>>>)
\* ------------------------------------------------------------------
\* SpecAtoms: the encoder on single atoms: integers over the whole i64
\* range, strings of one- to four-byte characters and symbols, with texts
\* on both sides of the one-byte varint limit.
\* ------------------------------------------------------------------

MaxChars == 130

\* the text of k characters c
Repeat(c, k) == [i \in 1..k |-> c]

\* the limbs the sample integers are made of
LowLimbs == {0, 1, 255, 256, 65535}
TopLimbs == {-32768, -1, 0, 1, 32767}

\* a, e with acute accent, the euro sign, a grinning face: 1, 2, 3 and 4
\* bytes of UTF-8
SampleChars == {97, 233, 8364, 128512}

IntegerAtoms ==
    {Integer(<<a, b, c, d>>) : a \in LowLimbs, b \in LowLimbs,
                               c \in LowLimbs, d \in TopLimbs}

StringAtoms == {String(Repeat(c, k)) : c \in SampleChars, k \in 0..MaxChars}

\* the symbols a`b, a`bb, ...: each is a text Symbol::try_new accepts
SymbolAtoms ==
    {Symbol(<<97, Grave>> \o Repeat(98, k)) : k \in 1..MaxChars}

InitAtoms ==
    /\ expr \in IntegerAtoms \cup StringAtoms \cup SymbolAtoms
    /\ wire = <<>>
    /\ IdleSymbol
    /\ IdleHeap

\* e.as_wxf() on an atom
AtomAsWxf ==
    /\ wire = <<>>
    /\ expr.kind \in {"Integer", "String", "Symbol"}
    /\ wire' = as_wxf(expr)
    /\ UNCHANGED <<expr, symbolVars, heapVars>>

NextAtoms == AtomAsWxf

SpecAtoms == InitAtoms /\ [][NextAtoms]_vars

\* C15: an Integer atom n is the byte L and then exactly 8 bytes that read,
\* low byte first and in two's complement, as n: for every i64, the negative
\* ones and i64::MIN and i64::MAX included.
C15_IntegerLittleEndian ==
    (wire # <<>> /\ expr.kind = "Integer") =>
        /\ Len(wire) = Len(HeaderWxf) + 1 + 8
        /\ SubSeq(wire, 1, 2) = HeaderWxf
        /\ wire[3] = 76
        /\ LET b == SubSeq(wire, 4, 11)
               n == expr.int
           IN /\ \A i \in 1..8 : b[i] \in 0..255
              /\ \A k \in 1..3 : b[2 * k - 1] + 256 * b[2 * k] = n[k]
              /\ b[7] + 256 * b[8] - (IF b[8] >= 128 THEN 65536 ELSE 0) = n[4]

\* i64::MIN has been encoded: seven zero bytes and then the sign byte
C15_Witness ==
    /\ expr = Integer(I64_MIN)
    /\ wire = <<56, 58, 76, 0, 0, 0, 0, 0, 0, 0, 128>>

\* the UTF-8 byte length of a text, character by character
Utf8Width(c) ==
    IF c < 128 THEN 1 ELSE IF c < 2048 THEN 2 ELSE IF c < 65536 THEN 3 ELSE 4

RECURSIVE Utf8Length(_)
Utf8Length(s) ==
    IF s = <<>> THEN 0
    ELSE IF Len(s) = 1 THEN Utf8Width(s[1])
    ELSE LET mid == Len(s) \div 2
         IN Utf8Length(SubSeq(s, 1, mid)) + Utf8Length(SubSeq(s, mid + 1, Len(s)))

RECURSIVE VarintValue(_)
\* the number a varint's bytes carry: 7 bits a byte, low bits first
VarintValue(v) ==
    IF v = <<>> THEN 0 ELSE (Head(v) % 128) + 128 * VarintValue(Tail(v))

\* C16: a String atom is S and a Symbol atom is s, then the varint of the
\* UTF-8 byte length of the text, then the text's bytes; the varint has the
\* continuation bit on every byte but the last, and is one byte exactly when
\* the length is below 128.
C16_TextAtomLayout ==
    (wire # <<>> /\ expr.kind \in {"String", "Symbol"}) =>
        LET n == Utf8Length(expr.text)
        IN /\ SubSeq(wire, 1, 2) = HeaderWxf
           /\ wire[3] = IF expr.kind = "String" THEN 83 ELSE 115
           /\ \E k \in 1..3 :
                 /\ Len(wire) = 3 + k + n
                 /\ \A i \in 1..(k - 1) : wire[3 + i] \in 128..255
                 /\ wire[3 + k] \in 0..127
                 /\ VarintValue(SubSeq(wire, 4, 3 + k)) = n
                 /\ (k = 1) <=> (n < 128)
                 /\ k > 1 => wire[3 + k] # 0
                 /\ SubSeq(wire, 4 + k, Len(wire)) = as_bytes(expr.text)

\* a string of 64 two-byte characters has been encoded: its length prefix is
\* the two-byte varint of 128, not the one-byte varint of 64
C16_Witness ==
    /\ expr = String(Repeat(233, 64))
    /\ Len(wire) = 5 + 128
    /\ SubSeq(wire, 1, 7) = <<56, 58, 83, 128, 1, 195, 169>>

\* ------------------------------------------------------------------
\* SpecCompress: Expr::as_wxf and Expr::as_wxf_compressed, with a
\* compressor whose write_all and finish may each report an error.
\*
\* flate2's ZlibEncoder is a library outside this repository.  Its output
\* is modelled as a zlib stream (RFC 1950): the two header bytes of a
\* level 9 stream, a DEFLATE body and the Adler-32 of the data, high byte
\* first.  The DEFLATE body is the one miniz_oxide writes at level 9 for a
\* short input: a lazy LZ77 parse in one final block with the static
\* Huffman codes (RFC 1951, BTYPE 01).
\* ------------------------------------------------------------------

HeaderWxfCompressed == <<56, 67, 58>>

\* CMF and FLG of a zlib stream written at level 9: 0x78 0xDA
ZlibHeader == <<120, 218>>

AdlerBase == 65521

RECURSIVE Adler32From(_, _, _, _)
\* the two 16-bit sums of Adler-32 over data[i..]
Adler32From(data, i, a, b) ==
    IF i > Len(data) THEN <<a, b>>
    ELSE LET a2 == (a + data[i]) % AdlerBase
         IN Adler32From(data, i + 1, a2, (b + a2) % AdlerBase)

adler32(data) ==
    LET ab == Adler32From(data, 1, 1, 0)
    IN <<ab[2] \div 256, ab[2] % 256, ab[1] \div 256, ab[1] % 256>>

\* ------------------------------------------------------------------
\* DEFLATE as flate2's ZlibEncoder (miniz_oxide, level 9) writes it for a
\* payload of at most 32 bytes: lazy LZ77 matching over the whole payload
\* and one final block with the static Huffman codes (RFC 1951, 3.2.6)
\* ------------------------------------------------------------------

\* a value of n bits, least significant bit first
BitsLsb(v, n) == [i \in 1..n |-> (v \div (2 ^ (i - 1))) % 2]

\* a Huffman code of n bits, most significant bit first
HuffmanCode(v, n) == [i \in 1..n |-> (v \div (2 ^ (n - i))) % 2]

\* the static literal/length code of a symbol 0..287
StaticLitLenCode(sym) ==
    IF sym <= 143 THEN HuffmanCode(48 + sym, 8)
    ELSE IF sym <= 255 THEN HuffmanCode(400 + (sym - 144), 9)
    ELSE IF sym <= 279 THEN HuffmanCode(sym - 256, 7)
    ELSE HuffmanCode(192 + (sym - 280), 8)

\* length symbols 257..285: the first length of each and its extra bits
LengthBase ==
    <<3, 4, 5, 6, 7, 8, 9, 10, 11, 13, 15, 17, 19, 23, 27, 31, 35, 43, 51,
      59, 67, 83, 99, 115, 131, 163, 195, 227, 258>>
LengthExtra ==
    <<0, 0, 0, 0, 0, 0, 0, 0, 1, 1, 1, 1, 2, 2, 2, 2, 3, 3, 3, 3, 4, 4, 4,
      4, 5, 5, 5, 5, 0>>

\* distance symbols 0..29: the first distance of each and its extra bits
DistBase ==
    <<1, 2, 3, 4, 5, 7, 9, 13, 17, 25, 33, 49, 65, 97, 129, 193, 257, 385,
      513, 769, 1025, 1537, 2049, 3073, 4097, 6145, 8193, 12289, 16385,
      24577>>
DistExtra ==
    <<0, 0, 0, 0, 1, 1, 2, 2, 3, 3, 4, 4, 5, 5, 6, 6, 7, 7, 8, 8, 9, 9, 10,
      10, 11, 11, 12, 12, 13, 13>>

\* the index of the last entry of base that is at most v
BaseIndex(base, v) ==
    CHOOSE k \in 1..Len(base) :
        base[k] <= v /\ (k = Len(base) \/ v < base[k + 1])

\* an LZ code is a literal byte or a match of len bytes dist bytes back
Literal(b) == [lz |-> "literal", byte |-> b]
Match(len, dist) == [lz |-> "match", len |-> len, dist |-> dist]

\* the bits of one LZ code under the static codes
StaticCodeBits(c) ==
    IF c.lz = "literal" THEN StaticLitLenCode(c.byte)
    ELSE LET l == BaseIndex(LengthBase, c.len)
             d == BaseIndex(DistBase, c.dist)
         IN StaticLitLenCode(256 + l)
              \o BitsLsb(c.len - LengthBase[l], LengthExtra[l])
              \o HuffmanCode(d - 1, 5)
              \o BitsLsb(c.dist - DistBase[d], DistExtra[d])

RECURSIVE StaticCodesBits(_)
StaticCodesBits(codes) ==
    IF codes = <<>> THEN <<>>
    ELSE StaticCodeBits(Head(codes)) \o StaticCodesBits(Tail(codes))

\* how many bytes data[p..] and data[q..] share, at most cap
RECURSIVE CommonPrefix(_, _, _, _)
CommonPrefix(data, p, q, cap) ==
    IF cap = 0 \/ data[p] # data[q] THEN 0
    ELSE 1 + CommonPrefix(data, p + 1, q + 1, cap - 1)

\* find_match at the 1-based position pos: the longest match that is longer
\* than match_len, the nearest of the longest.  The hash chain ends at the
\* dictionary position 0, so the payload's first byte starts no match.
find_match(data, pos, match_len) ==
    LET cap == IF Len(data) - pos + 1 < 258 THEN Len(data) - pos + 1 ELSE 258
        len_at == [q \in 2..(pos - 1) |-> CommonPrefix(data, pos, q, cap)]
        longer == {q \in 2..(pos - 1) : len_at[q] > match_len}
    IN IF longer = {} THEN [dist |-> 0, len |-> match_len]
       ELSE LET best == CHOOSE q \in longer :
                            \A r \in longer :
                                \/ len_at[r] < len_at[q]
                                \/ (len_at[r] = len_at[q] /\ r <= q)
            IN [dist |-> pos - best, len |-> len_at[best]]

NoSavedMatch == [len |-> 0, dist |-> 0, lit |-> 0]

\* compress_normal: the lazy parse.  A match found at one position is kept
\* back until the next position has been tried; a longer match there turns
\* the kept one into a literal.
RECURSIVE compress_normal(_, _, _, _)
compress_normal(data, pos, saved, codes) ==
    IF pos > Len(data) THEN codes
    ELSE
    LET found == find_match(data, pos, IF saved.len # 0 THEN saved.len ELSE 2)
        cur == IF (found.len = 3 /\ found.dist >= 8192) \/ pos - 1 = found.dist
               THEN [dist |-> 0, len |-> 0]
               ELSE found
    IN IF saved.len # 0
       THEN IF cur.len > saved.len
            THEN IF cur.len >= 128
                 THEN compress_normal(data, pos + cur.len, NoSavedMatch,
                          codes \o <<Literal(saved.lit), Match(cur.len, cur.dist)>>)
                 ELSE compress_normal(data, pos + 1,
                          [len |-> cur.len, dist |-> cur.dist, lit |-> data[pos]],
                          Append(codes, Literal(saved.lit)))
            ELSE compress_normal(data, pos + saved.len - 1, NoSavedMatch,
                     Append(codes, Match(saved.len, saved.dist)))
       ELSE IF cur.dist = 0
            THEN compress_normal(data, pos + 1, NoSavedMatch,
                     Append(codes, Literal(data[pos])))
            ELSE IF cur.len >= 128
                 THEN compress_normal(data, pos + cur.len, NoSavedMatch,
                          Append(codes, Match(cur.len, cur.dist)))
                 ELSE compress_normal(data, pos + 1,
                          [len |-> cur.len, dist |-> cur.dist, lit |-> data[pos]],
                          codes)

\* bits packed into bytes, the first bit lowest, the last byte padded with 0
pad_to_bytes(bits) ==
    [j \in 1..((Len(bits) + 7) \div 8) |->
        LET bit(i) == IF 8 * (j - 1) + i <= Len(bits)
                      THEN bits[8 * (j - 1) + i] * (2 ^ (i - 1)) ELSE 0
        IN bit(1) + bit(2) + bit(3) + bit(4) + bit(5) + bit(6) + bit(7) + bit(8)]

\* flush_block on finish: BFINAL 1, BTYPE 01, the codes, the end-of-block
\* symbol 256, padding to a byte
static_block(data) ==
    pad_to_bytes(<<1>> \o BitsLsb(1, 2)
                    \o StaticCodesBits(compress_normal(data, 1, NoSavedMatch, <<>>))
                    \o StaticLitLenCode(256))

\* what a ZlibEncoder over a Vec hands back from finish() after data went in
zlib_compress(data) == (ZlibHeader \o static_block(data)) \o adler32(data)

\* a mutant of Expr_as_wxf_compressed: the whole as_wxf() output, header
\* included, is what gets compressed
Expr_as_wxf_compressed_whole_file(e, write_err, finish_err) ==
    LET node == as_wxf(e)
        consumed == IF write_err = None THEN node
                    ELSE SubSeq(node, 1, write_err.value)
        out == IF write_err = None THEN HeaderWxfCompressed ELSE <<>>
    IN IF finish_err THEN Panic ELSE Some(out \o zlib_compress(consumed))

\* Expr::as_wxf_compressed.  write_err is None when e.write_all(&input) is
\* Ok and Some(k) when it fails after the encoder took k bytes; finish_err
\* tells whether e.finish() is Err.
Expr_as_wxf_compressed(e, write_err, finish_err) ==
    LET node == Expr_write_internal(e, <<>>)
        consumed == IF write_err = None THEN node
                    ELSE SubSeq(node, 1, write_err.value)
        out == IF write_err = None THEN HeaderWxfCompressed ELSE <<>>
    IN IF finish_err THEN Panic ELSE Some(out \o zlib_compress(consumed))

\* the expressions encoded: the sample atoms and the Normals of a sample
\* head with at most one sample argument
CompressInputs ==
    SampleAtoms
        \cup {Normal(h, <<>>) : h \in SampleAtoms}
        \cup {Normal(h, <<a>>) : h \in SampleAtoms, a \in SampleAtoms}

InitCompress ==
    /\ expr \in CompressInputs
    /\ wire = <<>>
    /\ IdleSymbol
    /\ IdleHeap

\* bytes = e.as_wxf()
CallAsWxf ==
    /\ outcome = Pending
    /\ wire' = as_wxf(expr)
    /\ outcome' = [op |-> "as_wxf", write_all |-> "none", finish |-> "none",
                   result |-> "returned"]
    /\ UNCHANGED <<input, expr, heapVars>>

\* bytes = e.as_wxf_compressed(); input' is the local Vec the node encoding
\* is written to, wire' the Vec returned (nothing on a panic)
CallAsWxfCompressed(write_err, finish_err) ==
    /\ outcome = Pending
    /\ LET r == Expr_as_wxf_compressed(expr, write_err, finish_err)
       IN /\ wire' = IF r = Panic THEN <<>> ELSE r.value
          /\ outcome' = [op |-> "as_wxf_compressed",
                         write_all |-> IF write_err = None THEN "ok" ELSE "err",
                         finish |-> IF finish_err THEN "err" ELSE "ok",
                         result |-> IF r = Panic THEN "panicked" ELSE "returned"]
    /\ input' = Expr_write_internal(expr, <<>>)
    /\ UNCHANGED <<expr, heapVars>>

\* the outcomes of write_all on the node encoding of e
WriteOutcomes(e) ==
    {None} \cup {Some(k) : k \in 0..(Len(Expr_write_internal(e, <<>>)) - 1)}

NextCompress ==
    \/ CallAsWxf
    \/ \E w \in WriteOutcomes(expr), f \in BOOLEAN : CallAsWxfCompressed(w, f)

SpecCompress == InitCompress /\ [][NextCompress]_vars

\* the bits of a byte sequence, each byte's lowest bit first
bytes_to_bits(z) ==
    [i \in 1..(8 * Len(z)) |-> (z[((i - 1) \div 8) + 1] \div (2 ^ ((i - 1) % 8))) % 2]

RECURSIVE ReadLsb(_, _, _)
\* the n bits from bits[at] on as a value, least significant first
ReadLsb(bits, at, n) ==
    IF n = 0 THEN 0 ELSE bits[at] + 2 * ReadLsb(bits, at + 1, n - 1)

RECURSIVE ReadCode(_, _, _)
\* the n bits from bits[at] on as a Huffman code, most significant first
ReadCode(bits, at, n) ==
    IF n = 0 THEN 0
    ELSE bits[at] * (2 ^ (n - 1)) + ReadCode(bits, at + 1, n - 1)

\* the static literal/length symbol that starts at bits[at] and its width,
\* None when the bits run out
ReadStaticLitLen(bits, at) ==
    IF at + 6 > Len(bits) THEN None
    ELSE IF ReadCode(bits, at, 7) <= 23
    THEN Some([sym |-> 256 + ReadCode(bits, at, 7), width |-> 7])
    ELSE IF at + 7 > Len(bits) THEN None
    ELSE IF ReadCode(bits, at, 8) <= 191
    THEN Some([sym |-> ReadCode(bits, at, 8) - 48, width |-> 8])
    ELSE IF ReadCode(bits, at, 8) <= 199
    THEN Some([sym |-> 280 + (ReadCode(bits, at, 8) - 192), width |-> 8])
    ELSE IF at + 8 > Len(bits) THEN None
    ELSE Some([sym |-> 144 + (ReadCode(bits, at, 9) - 400), width |-> 9])

RECURSIVE CopyMatch(_, _, _)
\* len bytes copied from dist bytes back, one at a time
CopyMatch(out, len, dist) ==
    IF len = 0 THEN out
    ELSE CopyMatch(Append(out, out[Len(out) + 1 - dist]), len - 1, dist)

RECURSIVE inflate_static(_, _, _)
\* the symbols of a static block from bits[at] on: Some of the data and the
\* position after the end-of-block symbol, None on a malformed block
inflate_static(bits, at, out) ==
    LET s == ReadStaticLitLen(bits, at) IN
    IF s = None THEN None
    ELSE LET sym == s.value.sym
             after == at + s.value.width
         IN IF sym = 256 THEN Some([data |-> out, end |-> after])
            ELSE IF sym < 256 THEN inflate_static(bits, after, Append(out, sym))
            ELSE IF sym > 285 THEN None
            ELSE LET l == sym - 256
                     at_dist == after + LengthExtra[l]
                 IN IF at_dist + 4 > Len(bits) THEN None
                    ELSE LET len == LengthBase[l] + ReadLsb(bits, after, LengthExtra[l])
                             d == ReadCode(bits, at_dist, 5) + 1
                         IN IF d > 30 \/ at_dist + 4 + DistExtra[d] > Len(bits)
                            THEN None
                            ELSE LET dist == DistBase[d]
                                        + ReadLsb(bits, at_dist + 5, DistExtra[d])
                                 IN IF dist > Len(out) THEN None
                                    ELSE inflate_static(bits,
                                             at_dist + 5 + DistExtra[d],
                                             CopyMatch(out, len, dist))

\* reading a zlib stream back: Some(data) when z is a well-formed stream of
\* one final static block whose checksum matches, None otherwise
zlib_decompress(z) ==
    IF /\ Len(z) >= 8
       /\ z[1] = 120
       /\ (z[1] * 256 + z[2]) % 31 = 0
    THEN LET body == bytes_to_bits(SubSeq(z, 3, Len(z) - 4))
             r == IF SubSeq(body, 1, 3) = <<1, 1, 0>>
                  THEN inflate_static(body, 4, <<>>) ELSE None
         IN IF /\ r # None
               /\ 8 * (Len(z) - 6) = 8 * (((r.value.end - 1) + 7) \div 8)
               /\ SubSeq(z, Len(z) - 3, Len(z)) = adler32(r.value.data)
            THEN Some(r.value.data)
            ELSE None
    ELSE None

\* C17: as_wxf() is 8: and then the root node's encoding; as_wxf_compressed()
\* with a compressor that reports no error is 8C: and then a level 9 zlib
\* stream that holds exactly the bytes that follow 8: in as_wxf().
C17_Headers ==
    /\ outcome.op = "as_wxf" =>
           wire = <<56, 58>> \o Expr_write_internal(expr, <<>>)
    /\ (outcome.op = "as_wxf_compressed" /\ outcome.write_all = "ok"
            /\ outcome.finish = "ok") =>
           /\ outcome.result = "returned"
           /\ SubSeq(wire, 1, 3) = <<56, 67, 58>>
           /\ SubSeq(wire, 4, 5) = <<120, 218>>
           /\ zlib_decompress(SubSeq(wire, 4, Len(wire)))
                  = Some(SubSeq(as_wxf(expr), 3, Len(as_wxf(expr))))

\* the integer -2 has been written compressed without an error: 8C:, the
\* zlib header, a static block (literals 4c fe ff, then six bytes from one
\* byte back) and the checksum
C17_Witness ==
    /\ expr = Integer(I64(-2))
    /\ outcome.op = "as_wxf_compressed"
    /\ outcome.write_all = "ok"
    /\ outcome.finish = "ok"
    /\ wire = <<56, 67, 58, 120, 218, 243, 249, 247, 31, 2, 0, 38, 137, 8, 68>>

\* C18: when the compressor reports an error while the payload is written
\* or while the stream is finished, as_wxf_compressed panics; what it
\* returns always has the 8C: header and the complete payload.
C18_CompressorErrorPanics ==
    outcome.op = "as_wxf_compressed" =>
        /\ (outcome.write_all = "err" \/ outcome.finish = "err") =>
               outcome.result = "panicked"
        /\ outcome.result = "returned" =>
               /\ SubSeq(wire, 1, 3) = <<56, 67, 58>>
               /\ zlib_decompress(SubSeq(wire, 4, Len(wire))) = Some(input)

\* ------------------------------------------------------------------
\* SpecTree: Expr::tag, Expr::head and Expr::symbol_head on expression
\* trees: src/src/lib.rs
\* ------------------------------------------------------------------

MaxDepth == 2
MaxHeads == 2

\* 10, 1.5, "x", a`f, a`x
TreeAtoms ==
    { Integer(I64(10)),
      Real(OnePointFive),
      String(<<120>>),
      Symbol(<<97, Grave, 102>>),
      Symbol(<<97, Grave, 120>>) }

TreeArgLists ==
    {<<>>} \cup {<<a>> : a \in TreeAtoms}
           \cup {<<Symbol(<<97, Grave, 120>>), Integer(I64(10))>>}

RECURSIVE TreesOfDepth(_)
\* the expressions whose chain of heads is at most d Normals long
TreesOfDepth(d) ==
    IF d = 0 THEN TreeAtoms
    ELSE TreesOfDepth(d - 1)
            \cup {Normal(h, c) : h \in TreesOfDepth(d - 1), c \in TreeArgLists}

Trees == TreesOfDepth(MaxDepth)

InitTree ==
    /\ expr \in Trees
    /\ wire = <<>>
    /\ IdleSymbol
    /\ IdleHeap

\* expr.tag()
ExprTag ==
    /\ outcome = Pending
    /\ outcome' = [op |-> "tag", calls |-> 1, result |-> Expr_tag(expr)]
    /\ UNCHANGED <<input, wxfVars, heapVars>>

\* expr.symbol_head()
ExprSymbolHead ==
    /\ outcome = Pending
    /\ outcome' = [op |-> "symbol_head", calls |-> 1,
                   result |-> Expr_symbol_head(expr)]
    /\ UNCHANGED <<input, wxfVars, heapVars>>

\* expr.head(), and .head() again on the expression a head() returned
ExprHead ==
    /\ \/ outcome = Pending
       \/ outcome.op = "head" /\ outcome.calls < MaxHeads /\ outcome.result # Panic
    /\ LET receiver == IF outcome = Pending THEN expr ELSE outcome.result
           calls == IF outcome = Pending THEN 1 ELSE outcome.calls + 1
       IN outcome' = [op |-> "head", calls |-> calls,
                      result |-> Expr_head(receiver)]
    /\ UNCHANGED <<input, wxfVars, heapVars>>

\* a mutant of Expr_normal_part: index 0 is the head, index i the i-th argument
Expr_normal_part_one_based(e, index) ==
    CASE e.kind = "Normal" ->
            IF index = 0 THEN Some(e.head)
            ELSE IF index <= Len(e.contents) THEN Some(e.contents[index])
            ELSE None
      [] OTHER -> None

\* Expr::normal_part
Expr_normal_part(e, index) ==
    CASE e.kind = "Normal" -> slice_get(e.contents, index)
      [] OTHER -> None

MaxIndex == 2

\* expr.normal_part(index)
ExprNormalPart(index) ==
    /\ outcome = Pending
    /\ outcome' = [op |-> "normal_part", calls |-> 1, index |-> index,
                   result |-> Expr_normal_part(expr, index)]
    /\ UNCHANGED <<input, wxfVars, heapVars>>

NextTree ==
    \/ ExprTag
    \/ ExprSymbolHead
    \/ ExprHead
    \/ \E index \in 0..MaxIndex : ExprNormalPart(index)

SpecTree == InitTree /\ [][NextTree]_vars

RECURSIVE InnermostHead(_)
\* the atom at the bottom of the chain of heads
InnermostHead(e) == IF e.kind = "Normal" THEN InnermostHead(e.head) ELSE e

\* C19: tag() is None for an Integer, a Real and a String, the symbol for a
\* Symbol, and for a Normal the tag of its head, so the tag of the atom at
\* the bottom of its chain of heads; the arguments change nothing.
C19_Tag ==
    outcome.op = "tag" =>
        /\ expr.kind \in {"Integer", "Real", "String"} => outcome.result = None
        /\ expr.kind = "Symbol" => outcome.result = Some(expr.text)
        /\ expr.kind = "Normal" =>
              /\ outcome.result = Expr_tag(expr.head)
              /\ \A c \in TreeArgLists :
                    Expr_tag(Normal(expr.head, c)) = outcome.result
        /\ outcome.result =
              IF InnermostHead(expr).kind = "Symbol"
              THEN Some(InnermostHead(expr).text)
              ELSE None

\* tag() has been taken of a`f[a`x][10]: it is a`f
C19_Witness ==
    /\ expr = Normal(Normal(Symbol(<<97, Grave, 102>>),
                            <<Symbol(<<97, Grave, 120>>)>>),
                     <<Integer(I64(10))>>)
    /\ outcome.op = "tag"
    /\ outcome.result = Some(<<97, Grave, 102>>)

\* C20: head() of an Integer, Real, String or Symbol is the symbol expression
\* System`Integer, System`Real, System`String or System`Symbol, head() of a
\* Normal is its head, head() of head() of an atom is System`Symbol, and
\* head() does not panic.
C20_Head ==
    outcome.op = "head" =>
        /\ outcome.result # Panic
        /\ outcome.calls = 1 =>
              outcome.result =
                  CASE expr.kind = "Integer" -> Symbol(SystemInteger)
                    [] expr.kind = "Real" -> Symbol(SystemReal)
                    [] expr.kind = "String" -> Symbol(SystemString)
                    [] expr.kind = "Symbol" -> Symbol(SystemSymbol)
                    [] expr.kind = "Normal" -> expr.head
        /\ (outcome.calls = 2 /\ expr.kind # "Normal") =>
              outcome.result = Symbol(SystemSymbol)

\* head() has been called on 10 and again on what it returned
C20_Witness ==
    /\ expr = Integer(I64(10))
    /\ outcome.op = "head"
    /\ outcome.calls = 2
    /\ outcome.result = Symbol(SystemSymbol)

\* C21: normal_part(i) is the argument at zero-based position i of a Normal
\* with more than i arguments, and None, without a panic, for an atom and
\* for an index at or beyond the argument count.
C21_NormalPart ==
    outcome.op = "normal_part" =>
        IF expr.kind = "Normal" /\ outcome.index < Len(expr.contents)
        THEN outcome.result = Some(expr.contents[outcome.index + 1])
        ELSE outcome.result = None

\* normal_part(1) has been taken of a`f[a`x, 10]: it is 10, the second
\* argument
C21_Witness ==
    /\ expr = Normal(Symbol(<<97, Grave, 102>>),
                     <<Symbol(<<97, Grave, 120>>), Integer(I64(10))>>)
    /\ outcome.op = "normal_part"
    /\ outcome.index = 1
    /\ outcome.result = Some(Integer(I64(10)))

\* ------------------------------------------------------------------
\* SpecKind: Expr::to_kind on the reference-counted heap.  expr holds the
\* ExprKind a to_kind() returned, which owns a count of each of its
\* children, until the caller drops it; <<>> when there is none.
\* ------------------------------------------------------------------

\* a mutant of Expr_to_kind: a shared value is moved out, not cloned
Expr_to_kind_move_shared(hp, id) ==
    IF hp[id].strong = 1
    THEN [heap |-> [hp EXCEPT ![id] = FreeCell], kind |-> hp[id].kind,
          cloned |-> FALSE]
    ELSE [heap |-> [hp EXCEPT ![id].strong = @ - 1], kind |-> hp[id].kind,
          cloned |-> TRUE]

\* Expr::to_kind: Rc::try_unwrap moves the ExprKind out of a cell with one
\* owner and frees the cell; otherwise the ExprKind is cloned, which clones
\* the Exprs it owns, and the handle is dropped
Expr_to_kind(hp, id) ==
    IF hp[id].strong = 1
    THEN [heap |-> [hp EXCEPT ![id] = FreeCell], kind |-> hp[id].kind,
          cloned |-> FALSE]
    ELSE [heap |-> Rc_drop(Rc_clone_all(hp, Children(hp[id].kind)), id),
          kind |-> hp[id].kind, cloned |-> TRUE]

\* kind = h.to_kind()
ToKind(h) ==
    /\ Live(h)
    /\ Unborrowed(h)
    /\ expr = <<>>
    /\ LET r == Expr_to_kind(heap, handle[h]) IN
       /\ heap' = r.heap
       /\ expr' = r.kind
       /\ Done("to_kind", h, "none", IF r.cloned THEN "cloned" ELSE "moved")
    /\ handle' = [handle EXCEPT ![h] = NoAlloc]
    /\ UNCHANGED <<borrow, symbolVars, wire>>

\* drop(kind)
DropKind ==
    /\ expr # <<>>
    /\ heap' = Rc_drop_all(heap, Children(expr))
    /\ expr' = <<>>
    /\ Done("drop kind", "none", "none", "ok")
    /\ UNCHANGED <<handle, borrow, symbolVars, wire>>

NextKind ==
    \/ \E h \in Handles, n \in HeapInts : ExprNumber(h, n)
    \/ \E h, g \in Handles, args \in ArgLists : ExprNormal(h, g, args)
    \/ \E h, g \in Handles : Clone(h, g)
    \/ \E h, g \in Handles : ExprNormalHead(h, g)
    \/ \E h, g \in Handles : ExprHeadAt(h, g)
    \/ \E h, g \in Handles, index \in 0..MaxArgs :
           ExprNormalPartCloned(h, g, index)
    \/ \E h \in Handles : Drop(h)
    \/ \E h \in Handles : ToKind(h)
    \/ DropKind

SpecKind == InitHeap /\ [][NextKind]_vars

\* the expression an owned ExprKind denotes
KindTree(hp, k) ==
    IF k.kind = "Normal"
    THEN Normal(TreeAt(hp, k.head),
                [i \in 1..Len(k.contents) |-> TreeAt(hp, k.contents[i])])
    ELSE k

\* how many times the allocation id occurs among ids
Occurrences(ids, id) == Cardinality({i \in 1..Len(ids) : ids[i] = id})

\* what a to_kind() step on handle h does
ToKindEffect(h) ==
    LET id == handle[h]
        kids == Children(heap[id].kind)
    IN /\ handle'[h] = NoAlloc
       /\ KindTree(heap', expr') = TreeAt(heap, id)
       /\ heap[id].strong = 1 =>
             /\ last'.result = "moved"
             /\ heap'[id] = FreeCell
             /\ \A j \in AllocIds \ {id} : heap'[j] = heap[j]
       /\ heap[id].strong > 1 =>
             /\ last'.result = "cloned"
             /\ heap'[id].kind = heap[id].kind
             /\ heap'[id].strong = heap[id].strong - 1
             /\ \A j \in AllocIds \ {id} :
                   /\ heap'[j].kind = heap[j].kind
                   /\ heap'[j].strong = heap[j].strong + Occurrences(kids, j)
             /\ \A g \in Handles \ {h} :
                   handle[g] = id =>
                       /\ handle'[g] = id
                       /\ TreeAt(heap', id) = TreeAt(heap, id)

\* C22: to_kind() consumes the handle and returns the ExprKind kind() gave
\* just before.  A sole owner's cell is freed and nothing is cloned; a shared
\* value is cloned, its children gaining a count each, and every other handle
\* on it still sees the same value.
C22_ToKind ==
    [][\A h \in Handles :
          (last'.op = "to_kind" /\ last'.h = h /\ handle[h] # NoAlloc
              /\ handle'[h] = NoAlloc /\ expr = <<>> /\ expr' # <<>>)
          => ToKindEffect(h)]_vars

\* to_kind() has been called on a handle that shared a Normal with the
\* other handle: the value was cloned and the other handle still has it
C22_Witness ==
    /\ last.op = "to_kind"
    /\ last.h = "a"
    /\ last.result = "cloned"
    /\ expr = Normal(1, <<1>>)
    /\ handle["a"] = NoAlloc
    /\ Live("b")
    /\ TreeAt(heap, handle["b"]) = Normal(Integer(I64(1)), <<Integer(I64(1))>>)
    /\ heap[1].strong = 4

\* ------------------------------------------------------------------
\* SpecTable: the symbol table: src/src/symbol_table.rs
\*
\* heap holds the SymbolTable: its context, its context_path, the set
\* symbols, and common_symbol_names as a function from the names that have
\* an entry to their sets of symbols.  last holds the last call, its
\* argument and what it returned.  A Symbol is its text.
\* ------------------------------------------------------------------

\* SymbolTable::new
SymbolTable_new(context, context_path) ==
    [context |-> context,
     context_path |-> context_path,
     symbols |-> {},
     common_symbol_names |-> <<>>]

\* the old Symbol's symbol_name() and context_path(): the text after the
\* last "`", and the text up to and including it
Symbol_name_string(sym) == Symbol_symbol_name(sym).value
Symbol_context_path(sym) == Symbol_context(sym).value

\* HashMap::get as an Option
HashMap_get(m, k) == IF k \in DOMAIN m THEN Some(m[k]) ELSE None

\* SymbolTable::add_symbol: the symbol goes into symbols and into the set
\* under its name; the value returned is that of the last HashSet::insert,
\* true when the set did not have the symbol
SymbolTable_add_symbol(t, sym) ==
    LET name == Symbol_name_string(sym)
        old == IF name \in DOMAIN t.common_symbol_names
               THEN t.common_symbol_names[name] ELSE {}
    IN [table |-> [t EXCEPT !.symbols = @ \cup {sym},
                            !.common_symbol_names =
                        [n \in DOMAIN @ \cup {name} |->
                            IF n = name THEN old \cup {sym} ELSE @[n]]],
        result |-> sym \notin old]

\* SymbolTable::remove_symbol
SymbolTable_remove_symbol(t, sym) == [t EXCEPT !.symbols = @ \ {sym}]

\* str::contains and str::starts_with for one character
str_contains(s, c) == \E i \in 1..Len(s) : s[i] = c
str_starts_with(s, c) == Len(s) > 0 /\ s[1] = c

\* a mutant of SymbolTable_parse_symbol_name: the last entry of context_path
\* that has a text of the name wins
SymbolTable_parse_symbol_name_last_entry(t, name) ==
    LET common_names == HashMap_get(t.common_symbol_names, name)
        fresh == t.context \o name
        Has(i) == \E cn \in common_names.value :
                      Symbol_context_path(cn) = t.context_path[i]
    IN IF common_names = None THEN [table |-> t, result |-> fresh]
       ELSE IF \E i \in 1..Len(t.context_path) : Has(i)
       THEN LET i == CHOOSE i \in 1..Len(t.context_path) :
                         Has(i) /\ \A j \in (i + 1)..Len(t.context_path) : ~Has(j)
            IN [table |-> t,
                result |-> CHOOSE cn \in common_names.value :
                               Symbol_context_path(cn) = t.context_path[i]]
       ELSE [table |-> SymbolTable_add_symbol(t, fresh).table, result |-> fresh]

\* SymbolTable::parse_symbol_name: the loops return at the first entry of
\* context_path for which the name's set has a text of that context
SymbolTable_parse_symbol_name(t, name) ==
    LET common_names == HashMap_get(t.common_symbol_names, name)
        fresh == t.context \o name
        Has(i) == \E cn \in common_names.value :
                      Symbol_context_path(cn) = t.context_path[i]
    IN IF common_names = None THEN [table |-> t, result |-> fresh]
       ELSE IF \E i \in 1..Len(t.context_path) : Has(i)
       THEN LET i == CHOOSE i \in 1..Len(t.context_path) :
                         Has(i) /\ \A j \in 1..(i - 1) : ~Has(j)
            IN [table |-> t,
                result |-> CHOOSE cn \in common_names.value :
                               Symbol_context_path(cn) = t.context_path[i]]
       ELSE [table |-> SymbolTable_add_symbol(t, fresh).table, result |-> fresh]

\* a mutant of SymbolTable_parse_from_source: a relative text keeps its
\* leading "`"
SymbolTable_parse_from_source_keep_grave(t, text) ==
    LET r == IF ~str_contains(text, Grave)
             THEN SymbolTable_parse_symbol_name(t, text)
             ELSE IF str_starts_with(text, Grave)
             THEN [table |-> t, result |-> Symbol_unchecked_new(t.context \o text)]
             ELSE [table |-> t, result |-> Symbol_unchecked_new(text)]
    IN [table |-> SymbolTable_add_symbol(r.table, r.result).table,
        result |-> r.result]

\* SymbolTable::parse_from_source
SymbolTable_parse_from_source(t, text) ==
    LET r == IF ~str_contains(text, Grave)
             THEN SymbolTable_parse_symbol_name(t, text)
             ELSE IF str_starts_with(text, Grave)
             THEN [table |-> t,
                   result |-> Symbol_unchecked_new(t.context \o Tail(text))]
             ELSE [table |-> t, result |-> Symbol_unchecked_new(text)]
    IN [table |-> SymbolTable_add_symbol(r.table, r.result).table,
        result |-> r.result]

MaxPathLen == 2

\* the contexts a` and b`
TableContexts == {<<97, Grave>>, <<98, Grave>>}

RECURSIVE PathsOfLen(_)
PathsOfLen(n) ==
    IF n = 0 THEN {<<>>}
    ELSE {<<c>> \o p : c \in TableContexts, p \in PathsOfLen(n - 1)}

ContextPaths == UNION {PathsOfLen(n) : n \in 0..MaxPathLen}

\* a`x, b`x, b`y
TableSymbols == {<<97, Grave, 120>>, <<98, Grave, 120>>, <<98, Grave, 121>>}

\* x, `x, `y`x, b`x
SourceTexts ==
    {<<120>>, <<Grave, 120>>, <<Grave, 121, Grave, 120>>, <<98, Grave, 120>>}

InitTable ==
    /\ \E c \in TableContexts, p \in ContextPaths : heap = SymbolTable_new(c, p)
    /\ last = [op |-> "new", arg |-> <<>>, result |-> <<>>]
    /\ handle = <<>>
    /\ borrow = 0
    /\ IdleSymbol
    /\ IdleWxf

\* table.add_symbol(sym)
AddSymbol(sym) ==
    /\ LET r == SymbolTable_add_symbol(heap, sym)
       IN /\ heap' = r.table
          /\ last' = [op |-> "add_symbol", arg |-> sym, result |-> r.result]
    /\ UNCHANGED <<handle, borrow, symbolVars, wxfVars>>

\* table.remove_symbol(&sym)
RemoveSymbol(sym) ==
    /\ heap' = SymbolTable_remove_symbol(heap, sym)
    /\ last' = [op |-> "remove_symbol", arg |-> sym, result |-> <<>>]
    /\ UNCHANGED <<handle, borrow, symbolVars, wxfVars>>

\* table.parse_from_source(text)
ParseFromSource(text) ==
    /\ LET r == SymbolTable_parse_from_source(heap, text)
       IN /\ heap' = r.table
          /\ last' = [op |-> "parse_from_source", arg |-> text,
                      result |-> r.result]
    /\ UNCHANGED <<handle, borrow, symbolVars, wxfVars>>

NextTable ==
    \/ \E sym \in TableSymbols : AddSymbol(sym)
    \/ \E sym \in TableSymbols : RemoveSymbol(sym)
    \/ \E text \in SourceTexts : ParseFromSource(text)

SpecTable == InitTable /\ [][NextTable]_vars

\* C23: add_symbol(sym) returns true exactly when sym was in the symbol
\* table before the call, and false when the call added it.
C23_AddSymbolReturnsWasPresent ==
    [][last'.op = "add_symbol" =>
          (last'.result <=> last'.arg \in heap.symbols)]_vars

\* C28: parse_from_source of a text that starts with "`" returns $Context
\* followed by the text without its leading "`"; of a text that has a "`"
\* but does not start with one, the text itself; and whatever it returns is
\* in the table's symbol set when the call returns.
C28_ParseFromSource ==
    last.op = "parse_from_source" =>
        /\ str_starts_with(last.arg, Grave) =>
              last.result = heap.context \o SubSeq(last.arg, 2, Len(last.arg))
        /\ (str_contains(last.arg, Grave) /\ ~str_starts_with(last.arg, Grave)) =>
              last.result = last.arg
        /\ last.result \in heap.symbols

\* with $Context a`, `y`x has been parsed: the symbol is a`y`x and the table
\* has it
C28_Witness ==
    /\ last.op = "parse_from_source"
    /\ heap.context = <<97, Grave>>
    /\ last.arg = <<Grave, 121, Grave, 120>>
    /\ last.result = <<97, Grave, 121, Grave, 120>>
    /\ last.result \in heap.symbols

\* the symbols recorded under a name in common_symbol_names
RecordedUnder(t, name) ==
    IF name \in DOMAIN t.common_symbol_names
    THEN t.common_symbol_names[name] ELSE {}

\* what a bare-name parse_from_source(name) on table t has to return: the
\* recorded symbol of the earliest context_path entry that has one, else
\* $Context`name
BareNameAnswer(t, name) ==
    LET hits == {i \in 1..Len(t.context_path) :
                    t.context_path[i] \o name \in RecordedUnder(t, name)}
    IN IF hits = {} THEN t.context \o name
       ELSE t.context_path[CHOOSE i \in hits : \A j \in hits : i <= j] \o name

\* C29: parse_from_source of a bare name returns the symbol recorded under
\* that name whose context is the earliest entry of context_path that has
\* one, and $Context`name if no entry has one; the same call again returns an
\* equal symbol and leaves the table as it is.
C29_BareName ==
    [][(last'.op = "parse_from_source" /\ ~str_contains(last'.arg, Grave)) =>
          /\ last'.result = BareNameAnswer(heap, last'.arg)
          /\ SymbolTable_parse_from_source(heap', last'.arg)
                = [table |-> heap', result |-> last'.result]]_vars

\* x has been parsed while a`x and b`x were both recorded and context_path
\* was b`, a`: the symbol is b`x
C29_Witness ==
    /\ last.op = "parse_from_source"
    /\ last.arg = <<120>>
    /\ heap.context = <<97, Grave>>
    /\ heap.context_path = <<<<98, Grave>>, <<97, Grave>>>>
    /\ {<<97, Grave, 120>>, <<98, Grave, 120>>} \subseteq RecordedUnder(heap, <<120>>)
    /\ last.result = <<98, Grave, 120>>

\* C30: the name index agrees with the symbol set: every symbol recorded
\* under common_symbol_names is a member of symbols, so that a removed symbol
\* cannot come back through a bare-name lookup.
C30_IndexWithinSymbols ==
    (last.op \in {"new", "add_symbol", "remove_symbol", "parse_from_source"}) =>
        \A name \in DOMAIN heap.common_symbol_names :
            heap.common_symbol_names[name] \subseteq heap.symbols

\* C27: symbol_head() is System`Integer, System`Real, System`String or
\* System`Symbol for an atom, the head for a Normal whose head is a Symbol,
\* and None for a Normal whose head is anything else, even where tag() finds
\* a symbol further down.
C27_SymbolHead ==
    outcome.op = "symbol_head" =>
        outcome.result =
            CASE expr.kind = "Integer" -> Some(SystemInteger)
              [] expr.kind = "Real" -> Some(SystemReal)
              [] expr.kind = "String" -> Some(SystemString)
              [] expr.kind = "Symbol" -> Some(SystemSymbol)
              [] expr.kind = "Normal" /\ expr.head.kind = "Symbol" ->
                    Some(expr.head.text)
              [] OTHER -> None

\* symbol_head() has been taken of a`f[a`x][10], whose tag is a`f: it is None
C27_Witness ==
    /\ expr = Normal(Normal(Symbol(<<97, Grave, 102>>),
                            <<Symbol(<<97, Grave, 120>>)>>),
                     <<Integer(I64(10))>>)
    /\ outcome.op = "symbol_head"
    /\ outcome.result = None
    /\ Expr_tag(expr) = Some(<<97, Grave, 102>>)

\* ------------------------------------------------------------------
\* SpecDisplay: the Display of expressions: src/src/lib.rs
\* ------------------------------------------------------------------

\* the magnitude of an i64 as four unsigned 16-bit limbs, low limb first
i64_unsigned_abs(n) ==
    IF n[4] >= 0 THEN n
    ELSE LET c1 == 65535 - n[1]
             c2 == 65535 - n[2]
             c3 == 65535 - n[3]
             c4 == 65535 - (n[4] + 65536)
             s1 == c1 + 1
             s2 == c2 + (s1 \div 65536)
             s3 == c3 + (s2 \div 65536)
             s4 == c4 + (s3 \div 65536)
         IN <<s1 % 65536, s2 % 65536, s3 % 65536, s4 % 65536>>

\* the quotient and the remainder of an unsigned 64-bit value by ten
DivMod10(u) ==
    LET q4 == u[4] \div 10
        r4 == u[4] % 10
        q3 == (r4 * 65536 + u[3]) \div 10
        r3 == (r4 * 65536 + u[3]) % 10
        q2 == (r3 * 65536 + u[2]) \div 10
        r2 == (r3 * 65536 + u[2]) % 10
        q1 == (r2 * 65536 + u[1]) \div 10
        r1 == (r2 * 65536 + u[1]) % 10
    IN [quot |-> <<q1, q2, q3, q4>>, rem |-> r1]

RECURSIVE DecimalDigits(_)
\* the decimal digits of a positive unsigned value, none for zero
DecimalDigits(u) ==
    IF u = <<0, 0, 0, 0>> THEN <<>>
    ELSE Append(DecimalDigits(DivMod10(u).quot), 48 + DivMod10(u).rem)

\* Display of an i64
i64_fmt(n) ==
    LET digits == DecimalDigits(i64_unsigned_abs(n))
        text == IF digits = <<>> THEN <<48>> ELSE digits
    IN IF n[4] < 0 THEN <<45>> \o text ELSE text

\* Debug of an f64, for the values the displayed trees hold: 0.0, -0.0, 1.5
f64_debug(x) ==
    CASE x = PosZero -> <<48, 46, 48>>
      [] x = NegZero -> <<45, 48, 46, 48>>
      [] x = OnePointFive -> <<49, 46, 53>>

RECURSIVE LowerHex(_)
\* {:x} of a positive value: lower-case hexadecimal digits, no padding
LowerHex(n) ==
    IF n = 0 THEN <<>>
    ELSE Append(LowerHex(n \div 16),
                IF n % 16 < 10 THEN 48 + (n % 16) ELSE 87 + (n % 16))

\* the escape \u{...} of a code point
escape_unicode(c) == (<<92, 117, 123>> \o LowerHex(c)) \o <<125>>

\* Grapheme_Extend, on the code points up to U+036F: the combining
\* diacritical marks U+0300..U+036F
is_grapheme_extended(c) == c \in 768..879

\* core's is_printable, on the code points up to U+036F: not the controls
\* (Cc), not the no-break space (Zs) and not the soft hyphen (Cf)
is_printable(c) ==
    /\ c \in 32..879
    /\ c \notin 127..160
    /\ c # 173

\* Debug of a char inside a str (char::escape_debug_ext with the double
\* quote escaped and the single quote not).  Code points above U+036F are
\* outside the Unicode tables modelled here.
char_escape_debug(c) ==
    CASE c = 0 -> <<92, 48>>
      [] c = 9 -> <<92, 116>>
      [] c = 13 -> <<92, 114>>
      [] c = 10 -> <<92, 110>>
      [] c = 92 -> <<92, 92>>
      [] c = 34 -> <<92, 34>>
      [] c \in 1..879 /\ c \notin {9, 10, 13, 34, 92} ->
            IF is_grapheme_extended(c) THEN escape_unicode(c)
            ELSE IF is_printable(c) THEN <<c>>
            ELSE escape_unicode(c)

\* Debug of a str: the escaped characters between double quotes
str_debug(s) ==
    (<<34>> \o Concat([i \in 1..Len(s) |-> char_escape_debug(s[i])])) \o <<34>>

\* Display for Number
Number_fmt(e) ==
    IF e.kind = "Integer" THEN i64_fmt(e.int) ELSE f64_debug(e.real)

RECURSIVE Expr_fmt(_)
RECURSIVE Normal_fmt_loop(_, _, _)
\* the for loop of Display for Normal, from index idx on
Normal_fmt_loop(contents, idx, f) ==
    IF idx = Len(contents) THEN f
    ELSE LET f1 == f \o Expr_fmt(contents[idx + 1])
             f2 == IF idx # Len(contents) - 1 THEN f1 \o <<44, 32>> ELSE f1
         IN Normal_fmt_loop(contents, idx + 1, f2)

\* a mutant of Normal_fmt: the separator follows every argument
Normal_fmt_trailing_separator(normal) ==
    (((Expr_fmt(normal.head) \o <<91>>)
        \o Concat([i \in 1..Len(normal.contents) |->
                      Expr_fmt(normal.contents[i]) \o <<44, 32>>]))
        \o <<93>>)

\* Display for Normal
Normal_fmt(normal) ==
    Normal_fmt_loop(normal.contents, 0, Expr_fmt(normal.head) \o <<91>>) \o <<93>>

\* Display for Expr and ExprKind
Expr_fmt(e) ==
    CASE e.kind = "Normal" -> Normal_fmt(e)
      [] e.kind \in {"Integer", "Real"} -> Number_fmt(e)
      [] e.kind = "String" -> str_debug(e.text)
      [] e.kind = "Symbol" -> e.text

\* "System`Sin"
SystemSin == <<83, 121, 115, 116, 101, 109, Grave, 83, 105, 110>>

\* System`Sin, 1, 2, i64::MIN, -0.0, and the string a"b
DisplayAtoms ==
    { Symbol(SystemSin),
      Integer(I64(1)),
      Integer(I64(2)),
      Integer(I64_MIN),
      Real(NegZero),
      String(<<97, 34, 98>>) }

DisplayArgLists ==
    {<<>>} \cup {<<a>> : a \in DisplayAtoms}
           \cup {<<a, b>> : a \in {Integer(I64(1)), String(<<97, 34, 98>>)},
                            b \in {Integer(I64(2)), Real(NegZero)}}
           \cup {<<Integer(I64(1)), Integer(I64(2)), Symbol(SystemSin)>>}

RECURSIVE DisplayTreesOfDepth(_)
DisplayTreesOfDepth(d) ==
    IF d = 0 THEN DisplayAtoms
    ELSE DisplayTreesOfDepth(d - 1)
            \cup {Normal(h, c) : h \in DisplayTreesOfDepth(d - 1),
                                 c \in DisplayArgLists}

InitDisplay ==
    /\ expr \in DisplayTreesOfDepth(MaxDepth)
    /\ wire = <<>>
    /\ IdleSymbol
    /\ IdleHeap

\* format!("{}", expr)
ExprDisplay ==
    /\ outcome = Pending
    /\ outcome' = [op |-> "fmt", result |-> Expr_fmt(expr)]
    /\ UNCHANGED <<input, wxfVars, heapVars>>

NextDisplay == ExprDisplay

SpecDisplay == InitDisplay /\ [][NextDisplay]_vars

RECURSIVE JoinWith(_, _)
\* the texts of a sequence with a separator between neighbours
JoinWith(texts, sep) ==
    IF texts = <<>> THEN <<>>
    ELSE IF Len(texts) = 1 THEN texts[1]
    ELSE (texts[1] \o sep) \o JoinWith(Tail(texts), sep)

\* C26: a Normal displays as its head's display, "[", its arguments'
\* displays in order with ", " between them and none at the end, and "]";
\* with no arguments it is head[], and nothing panics.
C26_NormalDisplay ==
    (outcome.op = "fmt" /\ expr.kind = "Normal") =>
        outcome.result =
            ((Expr_fmt(expr.head) \o <<91>>)
                \o JoinWith([i \in 1..Len(expr.contents) |->
                                Expr_fmt(expr.contents[i])], <<44, 32>>))
                \o <<93>>

\* System`Sin[1][2] has been displayed
C26_Witness ==
    /\ expr = Normal(Normal(Symbol(SystemSin), <<Integer(I64(1))>>),
                     <<Integer(I64(2))>>)
    /\ outcome.op = "fmt"
    /\ outcome.result = <<83, 121, 115, 116, 101, 109, Grave, 83, 105, 110,
                          91, 49, 93, 91, 50, 93>>

\* ------------------------------------------------------------------
\* The serde adapter: value.serialize(&WolframSerializer {})
\* (src/src/serde_support/ser.rs, src/tests/main.rs)
\* ------------------------------------------------------------------

SystemList == <<83, 121, 115, 116, 101, 109, Grave, 76, 105, 115, 116>>
SystemAssociation ==
    <<83, 121, 115, 116, 101, 109, Grave,
      65, 115, 115, 111, 99, 105, 97, 116, 105, 111, 110>>
SystemTrue == <<83, 121, 115, 116, 101, 109, Grave, 84, 114, 117, 101>>
SystemFalse == <<83, 121, 115, 116, 101, 109, Grave, 70, 97, 108, 115, 101>>
SystemNull == <<83, 121, 115, 116, 101, 109, Grave, 78, 117, 108, 108>>
SystemRule == <<83, 121, 115, 116, 101, 109, Grave, 82, 117, 108, 101>>
\* "Global`"
GlobalPrefix == <<71, 108, 111, 98, 97, 108, Grave>>

\* The values handed to the serializer, as the serde data model sees them.
\* A derived Serialize impl of a tuple struct with exactly one field calls
\* serialize_newtype_struct, so tuple structs here have 0 or 2 fields.
UnitValue == [ty |-> "unit"]
UnitStruct(name) == [ty |-> "unit_struct", name |-> name]
BoolValue(v) == [ty |-> "bool", bool |-> v]
I64Value(v) == [ty |-> "i64", int |-> v]
F64Value(v) == [ty |-> "f64", real |-> v]
CharValue(v) == [ty |-> "char", char |-> v]
StrValue(v) == [ty |-> "str", text |-> v]
SeqValue(items) == [ty |-> "seq", items |-> items]
TupleValue(items) == [ty |-> "tuple", items |-> items]
TupleStruct(name, items) ==
    [ty |-> "tuple_struct", name |-> name, items |-> items]
\* fields is a sequence of <<key, value>>
FieldStruct(name, fields) ==
    [ty |-> "struct", name |-> name, fields |-> fields]

\* impl From<bool> for Expr
Expr_from_bool(v) == Expr_symbol_new(IF v THEN SystemTrue ELSE SystemFalse)

\* impl From<i64> for Expr
Expr_from_i64(n) == Some(Integer(n))

\* Expr::string
Expr_string(s) == Some(String(s))

\* Expr::null(): the symbol System`Null
Expr_null == Some(Symbol(SystemNull))

\* Expr::rule(lhs, rhs): a Normal with the head System`Rule
Expr_rule(lhs, rhs) == Normal(Symbol(SystemRule), <<lhs, rhs>>)

\* Expr::normal(Symbol::new(text), contents)
Expr_normal_new(text, contents) ==
    LET head == Symbol_new(text) IN
    IF head = Panic THEN Panic
    ELSE Some(Normal(Symbol(head.value), contents))

\* Serializer::serialize_unit_struct: format!("Global`{name}")
serialize_unit_struct(name) == Expr_normal_new(GlobalPrefix \o name, <<>>)

\* SerializeSeq::end of WolframListSerializer
WolframListSerializer_end(namespace, variant, terms) ==
    IF namespace = <<>> THEN Expr_normal_new(SystemList, terms)
    ELSE IF namespace = <<>> THEN Expr_normal_new(variant, terms)
    ELSE Expr_normal_new(namespace \o <<Grave>> \o variant, terms)

\* SerializeStruct::end of WolframDictSerializer
WolframDictSerializer_end(rules) == Expr_normal_new(SystemAssociation, rules)

RECURSIVE Serialize_serialize(_)
RECURSIVE serialize_elements(_, _)
RECURSIVE serialize_fields(_, _)

\* the loop of serialize_element calls: terms.push(value.serialize(config)?)
serialize_elements(items, terms) ==
    IF items = <<>> THEN Some(terms)
    ELSE LET r == Serialize_serialize(Head(items)) IN
         IF r.tag # "Some" THEN r
         ELSE serialize_elements(Tail(items), Append(terms, r.value))

\* the loop of SerializeStruct::serialize_field calls
serialize_fields(fields, rules) ==
    IF fields = <<>> THEN Some(rules)
    ELSE LET lhs == Expr_string(Head(fields)[1])
             rhs == Serialize_serialize(Head(fields)[2])
         IN IF rhs.tag # "Some" THEN rhs
            ELSE serialize_fields(Tail(fields),
                     Append(rules, Expr_rule(lhs.value, rhs.value)))

\* value.serialize(&WolframSerializer {}): Some(expr) for Ok(expr)
Serialize_serialize(v) ==
    CASE v.ty = "unit" -> Expr_null
      [] v.ty = "unit_struct" -> serialize_unit_struct(v.name)
      [] v.ty = "bool" -> Expr_from_bool(v.bool)
      [] v.ty = "i64" -> Expr_from_i64(v.int)
      [] v.ty = "f64" -> serialize_f64(v.real)
      [] v.ty = "char" -> Expr_string(<<v.char>>)
      [] v.ty = "str" -> Expr_string(v.text)
      [] v.ty \in {"seq", "tuple"} ->
            LET terms == serialize_elements(v.items, <<>>) IN
            IF terms.tag # "Some" THEN terms
            ELSE WolframListSerializer_end(<<>>, <<>>, terms.value)
      [] v.ty = "tuple_struct" ->
            LET terms == serialize_elements(v.items, <<>>) IN
            IF terms.tag # "Some" THEN terms
            ELSE WolframListSerializer_end(<<>>, v.name, terms.value)
      [] v.ty = "struct" ->
            LET rules == serialize_fields(v.fields, <<>>) IN
            IF rules.tag # "Some" THEN rules
            ELSE WolframDictSerializer_end(rules.value)

MaxNesting == 2

\* Rust identifiers: TestEmpty's initial "T", "P_1" and "_x"
Idents == {<<84>>, <<80, 95, 49>>, <<95, 120>>}

SerAtoms ==
    {UnitValue, BoolValue(TRUE), BoolValue(FALSE),
     I64Value(I64(1)), I64Value(I64_MIN),
     F64Value(OnePointFive), F64Value(QuietNaN), F64Value(NegInfinity),
     CharValue(97), StrValue(<<97, 34, 98>>)}
        \cup {UnitStruct(n) : n \in Idents}

RECURSIVE SerValues(_)
SerValues(d) ==
    IF d = 0 THEN SerAtoms
    ELSE LET inner == SerValues(d - 1)
             lists == {<<>>} \cup {<<a>> : a \in inner}
                        \cup {<<BoolValue(TRUE), a>> : a \in inner}
             pairs == {<<>>} \cup {<<I64Value(I64(1)), a>> : a \in inner}
             fields == {<<>>} \cup {<<<<k, a>>>> : k \in Idents, a \in inner}
         IN inner
              \cup {SeqValue(l) : l \in lists}
              \cup {TupleValue(l) : l \in lists \ {<<>>}}
              \cup {TupleStruct(n, l) : n \in Idents, l \in pairs}
              \cup {FieldStruct(n, f) : n \in Idents, f \in fields}

InitSerialize ==
    /\ input \in SerValues(MaxNesting)
    /\ outcome = Pending
    /\ IdleWxf
    /\ IdleHeap

\* value.serialize(&WolframSerializer {})
Serialize ==
    /\ outcome = Pending
    /\ outcome' = [op |-> "serialize", result |-> Serialize_serialize(input)]
    /\ UNCHANGED <<input, wxfVars, heapVars>>

NextSerialize == Serialize

SpecSerialize == InitSerialize /\ [][NextSerialize]_vars

\* the unit structs that occur anywhere in a value
RECURSIVE UnitStructNames(_)
RECURSIVE UnitStructNamesOf(_)
UnitStructNamesOf(items) ==
    IF items = <<>> THEN {}
    ELSE UnitStructNames(Head(items)) \cup UnitStructNamesOf(Tail(items))
UnitStructNames(v) ==
    CASE v.ty = "unit_struct" -> {v.name}
      [] v.ty \in {"seq", "tuple", "tuple_struct"} -> UnitStructNamesOf(v.items)
      [] v.ty = "struct" ->
            UnitStructNamesOf([i \in 1..Len(v.fields) |-> v.fields[i][2]])
      [] OTHER -> {}

\* C25: serializing a value built from unit, unit structs, bools, i64
\* integers, f64, chars, strings, sequences, tuples, tuple structs and
\* field structs gives Ok(expr) and never panics, whatever Rust
\* identifiers name the structs and the fields.
C25_SerializeNeverPanics ==
    outcome.op = "serialize" => outcome.result.tag = "Some"

\* what the code does: the call panics exactly when the value holds a
\* unit struct whose name the symbol grammar rejects
SerializePanicsOnUnitStructName ==
    outcome.op = "serialize" =>
        (outcome.result = Panic <=>
            \E n \in UnitStructNames(input) : ~IsNameSegment(n))

\* ------------------------------------------------------------------
\* The global symbol interner behind a Mutex, used from several threads
\* (src/symbol.rs, src/src/symbol/interner.rs)
\* ------------------------------------------------------------------

NumThreads == 2
MaxCalls == 2

Threads == 1..NumThreads

\* the Mutex is held by no thread
Unlocked == 0

\* the three acquire_lock bodies a build can hold: src/symbol.rs compiled
\* without cfg(test), src/symbol.rs compiled with cfg(test), and
\* src/src/symbol/interner.rs
Builds == {"symbol_not_test", "symbol_test", "interned_string"}

\* the thread stays inside Mutex::lock until the Mutex is free
Blocked == [tag |-> "Blocked", value |-> <<>>]

\* Mutex::try_lock: Ok(guard) when the Mutex is free, else Err(WouldBlock)
Mutex_try_lock(holder, t) == IF holder = Unlocked THEN Some(t) ELSE None

\* Mutex::lock: Ok(guard) once the Mutex is free.  No thread of this model
\* panics while it holds the guard, so the Mutex is never poisoned.
Mutex_lock(holder, t) == IF holder = Unlocked THEN Some(t) ELSE Blocked

\* Result::expect and Option::expect
expect(r) == IF r.tag = "None" THEN Panic ELSE r

\* acquire_lock of src/symbol.rs
Symbol_acquire_lock(cfg_test, holder, t) ==
    IF ~cfg_test
    THEN expect(Mutex_try_lock(holder, t))
    ELSE expect(Mutex_lock(holder, t))

\* acquire_lock of src/src/symbol/interner.rs
InternedString_acquire_lock(holder, t) == expect(Mutex_lock(holder, t))

acquire_lock(build, holder, t) ==
    CASE build = "symbol_not_test" -> Symbol_acquire_lock(FALSE, holder, t)
      [] build = "symbol_test" -> Symbol_acquire_lock(TRUE, holder, t)
      [] build = "interned_string" -> InternedString_acquire_lock(holder, t)

\* StringInterner::get_or_intern: the id of the text, interned if it is
\* new; the ids count from 0
get_or_intern(interner, text) ==
    IF \E i \in 1..Len(interner) : interner[i] = text
    THEN [interner |-> interner,
          id |-> (CHOOSE i \in 1..Len(interner) : interner[i] = text) - 1]
    ELSE [interner |-> Append(interner, text), id |-> Len(interner)]

\* StringInterner::resolve
resolve(interner, id) ==
    IF id \in 0..(Len(interner) - 1) THEN Some(interner[id + 1]) ELSE None

\* impl From<T> for Symbol, after the lock is taken
Symbol_from(interner, text) ==
    LET r == get_or_intern(interner, text) IN
    [interner |-> r.interner, result |-> Some(r.id)]

\* impl PartialEq<str> for Symbol, after the lock is taken
Symbol_eq_str(interner, id, other) ==
    LET r == get_or_intern(interner, other) IN
    [interner |-> r.interner, result |-> Some(id = r.id)]

\* impl Display for Symbol, after the lock is taken
Symbol_fmt(interner, id) ==
    [interner |-> interner, result |-> expect(resolve(interner, id))]

RECURSIVE usize_digits(_)
usize_digits(n) ==
    IF n = 0 THEN <<>> ELSE Append(usize_digits(n \div 10), 48 + (n % 10))

\* Display of a usize
usize_fmt(n) == IF n = 0 THEN <<48>> ELSE usize_digits(n)

\* impl Debug for Symbol, after the lock is taken: "Symbol({id}: {text})"
Symbol_debug_fmt(interner, id) ==
    LET s == expect(resolve(interner, id)) IN
    [interner |-> interner,
     result |-> IF s = Panic THEN Panic
                ELSE Some(<<83, 121, 109, 98, 111, 108, 40>> \o usize_fmt(id)
                            \o <<58, 32>> \o s.value \o <<41>>)]

\* "x" and "y"
InternTexts == {<<120>>, <<121>>}

\* the ids the interner can hand out
SymbolIds == 0..(Cardinality(InternTexts) - 1)

IdleThread == [pc |-> "idle", op |-> "none", id |-> 0, text |-> <<>>, calls |-> 0]

\* input: the build; heap: the interner's texts, a Symbol's id is its index;
\* expr: the ids of the Symbols created so far; borrow: the thread that
\* holds the Mutex; handle: each thread's position
InitInterner ==
    /\ input \in Builds
    /\ outcome = Pending
    /\ expr = {}
    /\ wire = <<>>
    /\ heap = <<>>
    /\ handle = [t \in Threads |-> IdleThread]
    /\ borrow = Unlocked
    /\ last = Pending

Enter(t, op, id, text) ==
    /\ handle[t].pc = "idle"
    /\ handle[t].calls < MaxCalls
    /\ handle' = [handle EXCEPT ![t] =
                    [pc |-> "acquire", op |-> op, id |-> id, text |-> text,
                     calls |-> @.calls + 1]]
    /\ UNCHANGED <<input, outcome, expr, wire, heap, borrow, last>>

\* thread t calls Symbol::from(text)
CallFrom(t, text) == Enter(t, "from", 0, text)

\* thread t evaluates sym == text
CallEqStr(t, id, text) == id \in expr /\ Enter(t, "eq_str", id, text)

\* thread t formats sym with "{}"
CallFmt(t, id) == id \in expr /\ Enter(t, "fmt", id, <<>>)

\* thread t formats sym with "{:?}"
CallDebug(t, id) == id \in expr /\ Enter(t, "debug", id, <<>>)

\* let lock = acquire_lock(): the guard, a panic, or the thread keeps waiting
AcquireLock(t) ==
    /\ handle[t].pc = "acquire"
    /\ LET r == acquire_lock(input, borrow, t) IN
       /\ r # Blocked
       /\ IF r = Panic
          THEN /\ handle' = [handle EXCEPT ![t].pc = "panicked"]
               /\ last' = [op |-> handle[t].op, thread |-> t, result |-> Panic]
               /\ UNCHANGED borrow
          ELSE /\ handle' = [handle EXCEPT ![t].pc = "locked"]
               /\ borrow' = r.value
               /\ UNCHANGED last
    /\ UNCHANGED <<input, outcome, expr, wire, heap>>

\* the rest of the operation under the guard; the guard is dropped on return
Finish(t) ==
    /\ handle[t].pc = "locked"
    /\ LET h == handle[t]
           r == CASE h.op = "from" -> Symbol_from(heap, h.text)
                  [] h.op = "eq_str" -> Symbol_eq_str(heap, h.id, h.text)
                  [] h.op = "fmt" -> Symbol_fmt(heap, h.id)
                  [] h.op = "debug" -> Symbol_debug_fmt(heap, h.id)
       IN /\ heap' = r.interner
          /\ expr' = IF h.op = "from" THEN expr \cup {r.result.value} ELSE expr
          /\ last' = [op |-> h.op, thread |-> t, result |-> r.result]
          /\ handle' = [handle EXCEPT ![t].pc =
                            IF r.result = Panic THEN "panicked" ELSE "idle"]
    /\ borrow' = Unlocked
    /\ UNCHANGED <<input, outcome, wire>>

NextInterner ==
    \/ \E t \in Threads, text \in InternTexts : CallFrom(t, text)
    \/ \E t \in Threads, id \in SymbolIds, text \in InternTexts : CallEqStr(t, id, text)
    \/ \E t \in Threads, id \in SymbolIds : CallFmt(t, id)
    \/ \E t \in Threads, id \in SymbolIds : CallDebug(t, id)
    \/ \E t \in Threads : AcquireLock(t)
    \/ \E t \in Threads : Finish(t)

SpecInterner == InitInterner /\ [][NextInterner]_vars

\* the scheduler runs every thread that can run, and a thread inside
\* Mutex::lock gets the Mutex if it is free again and again
FairSpecInterner ==
    /\ SpecInterner
    /\ \A t \in Threads : SF_vars(AcquireLock(t)) /\ WF_vars(Finish(t))

\* C24: Symbols are created, compared with strings and displayed (with {}
\* or {:?}) from several threads at once; under every interleaving each
\* acquisition of the interner lock succeeds: no operation panics because
\* another thread holds the lock.
C24_EveryAcquisitionSucceeds ==
    \A t \in Threads : handle[t].pc # "panicked"

\* what the code does: a thread panics only in the build of src/symbol.rs
\* without cfg(test), in acquire_lock, while another thread holds the lock
InternerPanicsOnlyOnTryLock ==
    [][\A t \in Threads :
          handle'[t].pc = "panicked" /\ handle[t].pc # "panicked" =>
              /\ input = "symbol_not_test"
              /\ handle[t].pc = "acquire"
              /\ borrow \in Threads \ {t}]_vars

\* with a blocking lock no thread waits forever in acquire_lock
InternerNoThreadWaitsForever ==
    \A t \in Threads :
        (handle[t].pc = "acquire") ~> (handle[t].pc # "acquire")

=============================================================================
